---------------------------- MODULE Spec2Model ----------------------------
(***************************************************************************)
(* SongOfTheFloppies: the MIDI playback scheduler (MIDI::playMusic,        *)
(* MIDI::playTrack), the voice pool used by MIDI::noteOn / MIDI::noteOff,  *)
(* the tempo clock (MIDI::decodeDivision) and the variable-length          *)
(* quantity decoder (MIDI::readVariableLengthQuantity).                    *)
(*                                                                         *)
(* Threads are modelled at the granularity of their accesses to shared     *)
(* memory: one action per access (or per critical section under mtx).      *)
(* Times are in milliseconds.  The tempo and delta-time values the model   *)
(* draws are such that every double computed by the program is an exact    *)
(* integer (960, 1600 ticks per second; 300, 500, 600, 1000 ms), so the    *)
(* integer arithmetic below equals the program's floating point.           *)
(***************************************************************************)
EXTENDS Integers, Sequences, FiniteSets, TLC

(***************************************************************************)
(* Program constants.                                                      *)
(***************************************************************************)
NOT_ACTIVE == 65535
MIDI_STANDARD_DEFAULT_USEC_PER_QTR_NOTE == 500000
MICROSECONDS_PER_SECOND == 1000000
MILLISECONDS_PER_SECOND == 1000
MAX_DRIVES == 13
EFFECTS_CHANNEL == 10
NUM_CHANNELS == 16
CHANNEL_NOT_ASSIGNED == 255
DEFAULT_INSTRUMENT == 1
DEFAULT_VOLUME == 100
MIN_FLOPPY_NOTE == 25
MAX_FLOPPY_NOTE == 57
NOTE_DOWN_SHIFT_SEMITONES == 12
NUM_SEMITONES_IN_OCTAVE == 12
MAX_NOTES == 128
DEFAULT_EXPRESSION == 127

(***************************************************************************)
(* Bounds of the model.                                                    *)
(***************************************************************************)
\* size of the voice pool (the program's MAX_SIMUL is 200)
MAX_SIMUL == 2
\* longest generated track, in events
MaxEvents == 2
\* the clock stops advancing at MaxNow milliseconds
MaxNow == 1100
\* one step of the clock, in milliseconds
TickMS == MILLISECONDS_PER_SECOND \div 10

(***************************************************************************)
(* Events (class MidiEvent / MetaEvent / SysExEvent behind MTrkEvent).     *)
(***************************************************************************)
MidiEvt(d, st, b1, b2) ==
    [deltaTime |-> d, type |-> "MIDI", status |-> st, byte1 |-> b1,
     byte2 |-> b2, metaType |-> 0, bytes |-> << >>]

MetaEvt(d, mt, bs) ==
    [deltaTime |-> d, type |-> "Meta", status |-> 0, byte1 |-> 0,
     byte2 |-> 0, metaType |-> mt, bytes |-> bs]

\* 3-byte big-endian payload of a Set Tempo event
TempoBytes(u) == << (u \div 65536) % 256, (u \div 256) % 256, u % 256 >>

SetTempo(d, u) == MetaEvt(d, 81, TempoBytes(u))
EndOfTrack(d) == MetaEvt(d, 47, << >>)
TextEvt(d) == MetaEvt(d, 1, << >>)
NoteOnEvt(d, chan, note, vel) == MidiEvt(d, 143 + chan, note, vel)
NoteOffEvt(d, chan, note) == MidiEvt(d, 127 + chan, note, 0)
ControlChangeEvt(d, chan, controller, value) == MidiEvt(d, 175 + chan, controller, value)
PitchBendEvt(d, chan, lsb, msb) == MidiEvt(d, 223 + chan, lsb, msb)
ProgramChangeEvt(d, chan, p) == MidiEvt(d, 191 + chan, p, 0)

(***************************************************************************)
(* Pure functions of the program.                                          *)
(***************************************************************************)
\* #define swapi4(i4): the four bytes of a uint32_t in reverse order; a word
\* is written as its bytes in memory order (little-endian)
swapi4(w) == << w[4], w[3], w[2], w[1] >>

\* the uint32_t whose bytes in memory are w (the top byte is below 128 here)
WordValue(w) == w[1] + (w[2] * 256) + (w[3] * 65536) + (w[4] * 16777216)

\* a zero byte is put in front of the 3 bytes, the 4 bytes are read as a
\* uint32_t and endian-swapped
ThreeBinaryBytesDirectToInt(bytes) == WordValue(swapi4(<< 0 >> \o bytes))

invalidProg(p) == p > 112 \/ (p >= 97 /\ p <= 104)

\* MIDI::decodeDivision: the new ticksPerSecond for header.division and
\* usecPerQtrNote.  Frames per second are kept in hundredths (29.97).
FPS100(div) ==
    LET fps == (256 - ((div - 32768) \div 256)) % 256
    IN  IF fps = 29 THEN 2997 ELSE fps * 100

TicksPerQtrNoteMode(div) == div < 32768

\* fault variant: the rate keeps the default tempo whatever usecPerQtrNote is
DecodeDivisionStale(div, usec) ==
    (MICROSECONDS_PER_SECOND * div) \div MIDI_STANDARD_DEFAULT_USEC_PER_QTR_NOTE

decodeDivision(div, usec) ==
    IF div < 32768
    THEN (MICROSECONDS_PER_SECOND * div) \div usec
    ELSE ((div % 256) * FPS100(div)) \div 100

(***************************************************************************)
(* MIDI::readVariableLengthQuantity on the buffer raw (1-based sequence of *)
(* bytes) with the cursor at 0-based position p: the value (a size_t) and  *)
(* the new cursor.  Reading at the end of the buffer gives the string's    *)
(* terminating zero.  The size_t does not wrap below 10 bytes.             *)
(***************************************************************************)
RawAt(raw, p) == IF p < Len(raw) THEN raw[p + 1] ELSE 0

RECURSIVE VlqLoop(_, _, _)
VlqLoop(raw, p, value) ==
    LET c == RawAt(raw, p)
        v == (value * 128) + (c % 128)
    IN  IF c >= 128
        THEN VlqLoop(raw, p + 1, v)
        ELSE [value |-> v, pos |-> p + 1]

\* fault variant: the loop shifts by 8 bits instead of 7
RECURSIVE VlqLoopBroken(_, _, _)
VlqLoopBroken(raw, p, value) ==
    LET c == RawAt(raw, p)
        v == (value * 256) + (c % 128)
    IN  IF c >= 128
        THEN VlqLoopBroken(raw, p + 1, v)
        ELSE [value |-> v, pos |-> p + 1]

ReadVlqBroken(raw, p) ==
    LET first == RawAt(raw, p)
    IN  IF first >= 128
        THEN VlqLoopBroken(raw, p + 1, first % 128)
        ELSE [value |-> first, pos |-> p + 1]

readVariableLengthQuantity(raw, p) ==
    LET first == RawAt(raw, p)
    IN  IF first >= 128
        THEN VlqLoop(raw, p + 1, first % 128)
        ELSE [value |-> first, pos |-> p + 1]

(***************************************************************************)
(* The fixed-width readers.  rawMIDI.substr(p, n) throws std::out_of_range *)
(* when p is beyond the end of the string (the exception is caught         *)
(* nowhere: the process is terminated) and is shorter than n when fewer    *)
(* than n bytes are left; the readers then read the temporary's            *)
(* terminating zero and, after it, bytes the program never wrote: g stands *)
(* for those.  Each reader gives the value, the new cursor, whether substr *)
(* threw, and whether a byte at or after the end of raw was asked for.     *)
(***************************************************************************)
substr(raw, p, n) ==
    IF p >= Len(raw) \/ n = 0
    THEN << >>
    ELSE SubSeq(raw, p + 1, IF p + n < Len(raw) THEN p + n ELSE Len(raw))

\* the first n bytes at the c_str() of the temporary substr(p, n)
Temporary(raw, p, n, g) ==
    SubSeq(substr(raw, p, n) \o << 0 >> \o [i \in 1 .. n |-> g], 1, n)

\* #define swapi2(i2)
swapi2(w) == << w[2], w[1] >>

readFourBinaryBytes(raw, p, g) ==
    [threw |-> p > Len(raw),
     past  |-> p + 4 > Len(raw),
     value |-> WordValue(swapi4(Temporary(raw, p, 4, g))),
     pos   |-> p + 4]

readTwoBinaryBytes(raw, p, g) ==
    [threw |-> p > Len(raw),
     past  |-> p + 2 > Len(raw),
     value |-> WordValue(swapi2(Temporary(raw, p, 2, g)) \o << 0, 0 >>),
     pos   |-> p + 2]

readOneBinaryByte(raw, p) ==
    [threw |-> p > Len(raw),
     past  |-> p >= Len(raw),
     value |-> RawAt(raw, p),
     pos   |-> p + 1]

(***************************************************************************)
(* readVariableLengthQuantity reads with rawMIDI[pos++]: the byte at the   *)
(* end of the string is its terminating zero, the bytes after it are not   *)
(* the string's.  sl is what lies there (the bytes found from the first    *)
(* position read after the terminator); a read beyond sl is a fault.       *)
(***************************************************************************)
MemoryFrom(raw, sl, p) ==
    [i \in 1 .. (IF p > Len(raw) THEN p ELSE Len(raw) + 1) |-> RawAt(raw, i - 1)]
        \o sl

ReadQuantityAt(raw, sl, p) ==
    LET mem == MemoryFrom(raw, sl, p)
        r   == readVariableLengthQuantity(mem, p)
    IN  [threw |-> r.pos > Len(mem),
         past  |-> r.pos > Len(raw),
         value |-> r.value,
         pos   |-> r.pos]

SysExEvt(d, bs) ==
    [deltaTime |-> d, type |-> "SysEx", status |-> 0, byte1 |-> 0,
     byte2 |-> 0, metaType |-> 0, bytes |-> bs]

(***************************************************************************)
(* MIDI::parseBaseEvent with the cursor at p and chunk.runningStatus = rs, *)
(* for an event of delta-time d: the event, the new cursor and the new     *)
(* chunk.runningStatus.                                                    *)
(***************************************************************************)
parseSysEx(raw, sl, p, rs, d) ==
    LET len == ReadQuantityAt(raw, sl, p + 1)
    IN  [threw |-> len.threw \/ len.pos > Len(raw),
         past  |-> len.past \/ len.pos + len.value > Len(raw),
         evt   |-> SysExEvt(d, substr(raw, len.pos, len.value)),
         pos   |-> len.pos + len.value,
         runningStatus |-> rs]

parseMeta(raw, sl, p, rs, d) ==
    LET metaType == readOneBinaryByte(raw, p + 1)
        len      == ReadQuantityAt(raw, sl, p + 2)
    IN  [threw |-> metaType.threw \/ len.threw \/ len.pos > Len(raw),
         past  |-> metaType.past \/ len.past \/ len.pos + len.value > Len(raw),
         evt   |-> MetaEvt(d, metaType.value, substr(raw, len.pos, len.value)),
         pos   |-> len.pos + len.value,
         runningStatus |-> rs]

\* fault variant: the first byte is taken as the status byte whatever it is
StatusIsFirstByte(firstByte, rs) == firstByte

\* the status of a MIDI event: chunk.runningStatus when the first byte is
\* not a status byte
ResolvedStatus(firstByte, rs) == IF firstByte < 128 THEN rs ELSE firstByte

\* fault variant: every status is followed by a second data byte
AlwaysSecondByte(status) == TRUE

\* byte2 is read unless the status is a program change, a channel pressure
\* or 0xF3
ReadsSecondByte(status) == ~((status >= 192 /\ status <= 223) \/ status = 243)

parseMidi(raw, p, rs, d, firstByte) ==
    LET running == firstByte < 128
        status  == ResolvedStatus(firstByte, rs)
        reads1  == ~running /\ status < 244
        r1      == readOneBinaryByte(raw, p + 1)
        byte1   == IF running THEN firstByte ELSE IF reads1 THEN r1.value ELSE 0
        q       == IF reads1 THEN p + 2 ELSE p + 1
        reads2  == ReadsSecondByte(status)
        r2      == readOneBinaryByte(raw, q)
        byte2   == IF reads2 THEN r2.value ELSE 0
    IN  [threw |-> (reads1 /\ r1.threw) \/ (reads2 /\ r2.threw),
         past  |-> (reads1 /\ r1.past) \/ (reads2 /\ r2.past),
         evt   |-> MidiEvt(d, status, byte1, byte2),
         pos   |-> IF reads2 THEN q + 1 ELSE q,
         runningStatus |-> status]

parseBaseEvent(raw, sl, p, rs, d) ==
    LET first == readOneBinaryByte(raw, p)
        body  == IF first.value \in {240, 247} THEN parseSysEx(raw, sl, p, rs, d)
                 ELSE IF first.value = 255 THEN parseMeta(raw, sl, p, rs, d)
                 ELSE parseMidi(raw, p, rs, d, first.value)
    IN  [body EXCEPT !.threw = first.threw \/ body.threw,
                     !.past = first.past \/ body.past]

\* MIDI::parseMTrkEvent: the delta-time, then the event
parseMTrkEvent(raw, sl, p, rs) ==
    LET deltaTime == ReadQuantityAt(raw, sl, p)
        base      == parseBaseEvent(raw, sl, deltaTime.pos, rs, deltaTime.value)
    IN  [base EXCEPT !.threw = deltaTime.threw \/ base.threw,
                     !.past = deltaTime.past \/ base.past]

(***************************************************************************)
(* State.                                                                  *)
(***************************************************************************)
VARIABLES
    format,                \* header.format
    division,              \* header.division
    chunks,                \* chunks[i].mtrkEvents, track i at chunks[i + 1]
    mainPc,                \* where the thread running playMusic is
    mainI,                 \* its loop index i
    pc,                    \* where each track's playTrack call is
    it,                    \* playTrack's iterator (1-based index of the event)
    elapsedMS,             \* chunks[track].elapsedMS
    idx,                   \* the local idx of noteOn / noteOff
    ticksPerSecond,
    usecPerQtrNote,
    ready,
    availablePlayIndices,
    activeNotes,           \* channels[chan - 1].activeNotes[note]
    prog,                  \* channels[chan - 1].prog
    channelHasBeenUsed,
    chanToDrive,
    freeDrive,
    mtxHeld,               \* mtx is locked
    isClosing,
    now,                   \* the clock, ms
    startTime,
    teardowns,             \* how many times cleanUpAudio was entered (kept for
                           \* the properties only)
    rawMIDI,
    pos,
    vlq,                   \* the last value readVariableLengthQuantity returned
    written,               \* the quantity written into rawMIDI, and where
    parsePc,
    ntrks,                 \* header.ntrks
    hdrLength,             \* header.length
    runningStatus,         \* chunk.runningStatus of the chunk being parsed
    chunkEnd,              \* the local chunkEnd of parseChunk
    mtrkEvents,            \* chunk.mtrkEvents of the chunk being parsed
    truncated,             \* a read or a declared length went past the end
                           \* of rawMIDI (kept for the properties only)
    stream,                \* per play index: what the Stream was last told
    volume,                \* channels[chan - 1].volume
    expression,
    pitchBendFactor,       \* in thousandths
    floppyNote             \* the note whose frequency is channels[chan - 1]
                           \* .floppyFreq, for the channel a note was last
                           \* sent to a drive for; 0 before

fileVars == << format, division, chunks >>
mainVars == << mainPc, mainI >>
tempoVars == << ticksPerSecond, usecPerQtrNote >>
poolVars == << availablePlayIndices, activeNotes, stream >>
driveVars == << prog, channelHasBeenUsed, chanToDrive, freeDrive, volume,
               expression, pitchBendFactor >>
chunkVars == << ntrks, hdrLength, runningStatus, chunkEnd, mtrkEvents, truncated >>
parseVars == << rawMIDI, pos, vlq, written, parsePc, chunkVars >>

vars == << format, division, chunks, mainPc, mainI, pc, it, elapsedMS, idx,
           ticksPerSecond, usecPerQtrNote, ready, availablePlayIndices,
           activeNotes, prog, channelHasBeenUsed, chanToDrive, freeDrive,
           mtxHeld, isClosing, now, startTime, teardowns, floppyNote, rawMIDI, pos, vlq,
           written, parsePc, ntrks, hdrLength, runningStatus, chunkEnd,
           mtrkEvents, truncated, stream, volume, expression,
           pitchBendFactor >>

NumTracks == Len(chunks)
Tracks == 0 .. (NumTracks - 1)
Track(t) == chunks[t + 1]
AtEvent(t) == it[t] <= Len(Track(t))
Ev(t) == Track(t)[it[t]]

Channels == 1 .. NUM_CHANNELS
\* the notes the generated files use
ModelNotes == {60, 69}
Slots == Channels \X ModelNotes
Handles == 0 .. (MAX_SIMUL - 1)

IsNoteOff(e) == e.type = "MIDI" /\ e.status >= 128 /\ e.status <= 143
IsNoteOn(e) == e.type = "MIDI" /\ e.status >= 144 /\ e.status <= 159 /\ e.status # 153
IsSetTempo(e) == e.type = "Meta" /\ e.metaType = 81
IsEndOfTrack(e) == e.type = "Meta" /\ e.metaType = 47
\* events playTrack's switch does nothing for
IsIgnored(e) ==
    \/ e.type = "SysEx"
    \/ e.type = "Meta" /\ e.metaType \notin {47, 81}
    \/ e.type = "MIDI" /\ ( e.status = 153 \/ e.status < 128
                            \/ (e.status >= 160 /\ e.status <= 175)
                            \/ (e.status >= 208 /\ e.status <= 223)
                            \/ e.status >= 240 )
IsProgramChange(e) == e.type = "MIDI" /\ e.status >= 192 /\ e.status <= 207
IsControlChange(e) == e.type = "MIDI" /\ e.status >= 176 /\ e.status <= 191
IsPitchBend(e) == e.type = "MIDI" /\ e.status >= 224 /\ e.status <= 239

\* the 1-based channel playTrack passes to noteOn / noteOff
NoteChan(e) == IF e.status >= 144 THEN e.status - 143 ELSE e.status - 127
NoteSlot(e) == << NoteChan(e), e.byte1 >>

(***************************************************************************)
(* The thread running MIDI::playMusic.                                     *)
(***************************************************************************)
\* the queue after the loop "for i = MAX_SIMUL - 1 down to 0: push(i)"
\* fault variant: one index more than MAX_SIMUL is pushed
FullPoolOneMore == [i \in 1 .. (MAX_SIMUL + 1) |-> MAX_SIMUL + 1 - i]

FullPool == [i \in 1 .. MAX_SIMUL |-> MAX_SIMUL - i]

\* a Stream nothing was played on: no member of a voice is set by the
\* constructor, the model writes "unset" for what is found there
NewStream ==
    [h \in 0 .. (MAX_SIMUL - 1) |->
        [decayFactor |-> "unset", note |-> 0, pitchBend |-> 0, noteVel |-> 0,
         channelVel |-> 0, channelExpression |-> 0]]

\* Stream::stopAudio
stopAudio(st, h) == [st EXCEPT ![h].decayFactor = "shrink"]

\* Stream::setFreqs (the frequency is written as its note number)
setFreqs(st, h, n, pb) == [st EXCEPT ![h].note = n, ![h].pitchBend = pb]

\* Stream::setVels
setVels(st, h, e, cv, v) ==
    [st EXCEPT ![h].channelExpression = e, ![h].channelVel = cv, ![h].noteVel = v]

\* Stream::setPitchBend, setChannelVel, setChannelExpression
setPitchBend(st, h, pb) == [st EXCEPT ![h].pitchBend = pb]
setChannelVel(st, h, cv) == [st EXCEPT ![h].channelVel = cv]
setChannelExpression(st, h, e) == [st EXCEPT ![h].channelExpression = e]

\* noteOn's two calls for play index h: setFreqs with the channel's pitch
\* bend factor, setVels with its expression and volume and the velocity
SetFreqsVels(st, h, e) ==
    setVels(setFreqs(st, h, e.byte1, pitchBendFactor[NoteChan(e)]),
            h, expression[NoteChan(e)], volume[NoteChan(e)], e.byte2)

\* Stream::startAudio
startAudio(st, h) == [st EXCEPT ![h].decayFactor = "growth"]

\* fault variant: only the voices that were started are stopped
cleanUpAudioStartedOnly(st) ==
    [h \in DOMAIN st |->
        IF st[h].decayFactor = "growth"
        THEN [st[h] EXCEPT !.decayFactor = "shrink"]
        ELSE st[h]]

\* fault variant: the setters are called for every play index, whatever
\* channel holds it
updatePlayingNotesOfAll(st, an, chan, pb, cv, e) ==
    [h \in DOMAIN st |->
        setChannelExpression(setChannelVel(setPitchBend(st, h, pb), h, cv), h, e)[h]]

\* MIDI::updatePlayingNotes(chan) with the channel's pitch bend factor pb,
\* volume cv and expression e: the three setters for every active note of
\* the channel
updatePlayingNotes(st, an, chan, pb, cv, e) ==
    [h \in DOMAIN st |->
        IF \E n \in ModelNotes : an[<< chan, n >>] = h
        THEN setChannelExpression(setChannelVel(setPitchBend(st, h, pb), h, cv), h, e)[h]
        ELSE st[h]]

\* pitchBendBytes: the 14-bit value of a pitch bend event
pitchBendBytes(e) == e.byte2 * 128 + e.byte1

\* pitchBendBytesToFactor, in thousandths, for the two bends the generated
\* files use: 2^(2 * (bytes - 8192) / 8192 / 12) is 1 for 8192 and
\* 2^(-1/6) = 0.8909 for 0
pitchBendBytesToFactor(bytes) ==
    CASE bytes = 8192 -> 1000
      [] bytes = 0 -> 891

\* MIDI::cleanUpAudio: every play index is stopped
cleanUpAudio(st) == [h \in DOMAIN st |-> [st[h] EXCEPT !.decayFactor = "shrink"]]

\* playMusic up to the launch of the first thread: the per-session resets,
\* the default tempo, the voice pool, the start instant
Setup ==
    /\ mainPc = "setup"
    /\ channelHasBeenUsed' = [c \in Channels |-> FALSE]
    /\ usecPerQtrNote' = MIDI_STANDARD_DEFAULT_USEC_PER_QTR_NOTE
    /\ ticksPerSecond' = decodeDivision(division, MIDI_STANDARD_DEFAULT_USEC_PER_QTR_NOTE)
    /\ availablePlayIndices' = availablePlayIndices \o FullPool
    /\ activeNotes' = [s \in Slots |-> NOT_ACTIVE]
    /\ startTime' = now
    /\ mainI' = 0
    /\ IF format = 1
       THEN /\ ready' = FALSE
            /\ pc' = [pc EXCEPT ![0] = "top"]
            /\ elapsedMS' = [elapsedMS EXCEPT ![0] = 0]
            /\ mainPc' = "pred"
       ELSE /\ mainPc' = "seq"
            /\ UNCHANGED << ready, pc, elapsedMS >>
    /\ stream' = NewStream
    /\ pitchBendFactor' = [c \in Channels |-> 1000]
    /\ UNCHANGED << fileVars, it, idx, prog, chanToDrive, freeDrive, volume,
                    expression, mtxHeld, isClosing, now, teardowns, floppyNote, parseVars >>

\* fault variant: the launcher does not wait for ready
StartBarrierAlwaysOpen == TRUE

\* the predicate of cv.wait(lk, []{ return ready; })
StartBarrierOpen == ready

\* cv.wait evaluates the predicate
MainPred ==
    /\ mainPc = "pred"
    /\ IF StartBarrierOpen
       THEN mainPc' = "launch" /\ mainI' = 1
       ELSE mainPc' = "block" /\ mainI' = mainI
    /\ UNCHANGED << fileVars, pc, it, elapsedMS, idx, tempoVars, ready, poolVars,
                    driveVars, mtxHeld, isClosing, now, startTime, teardowns, floppyNote, parseVars >>

\* cv.wait, the predicate having been false, starts waiting
MainBlock ==
    /\ mainPc = "block"
    /\ mainPc' = "blocked"
    /\ UNCHANGED << fileVars, mainI, pc, it, elapsedMS, idx, tempoVars, ready, poolVars,
                    driveVars, mtxHeld, isClosing, now, startTime, teardowns, floppyNote, parseVars >>

\* a condition variable may wake without a notification
SpuriousWakeup ==
    /\ mainPc = "blocked"
    /\ mainPc' = "pred"
    /\ UNCHANGED << fileVars, mainI, pc, it, elapsedMS, idx, tempoVars, ready, poolVars,
                    driveVars, mtxHeld, isClosing, now, startTime, teardowns, floppyNote, parseVars >>

\* for (i = 1; i < chunks.size(); ++i) threads.push_back(...)
MainLaunch ==
    /\ mainPc = "launch"
    /\ IF mainI < NumTracks
       THEN /\ pc' = [pc EXCEPT ![mainI] = "top"]
            /\ elapsedMS' = [elapsedMS EXCEPT ![mainI] = 0]
            /\ mainI' = mainI + 1
            /\ mainPc' = mainPc
       ELSE /\ mainPc' = "join"
            /\ UNCHANGED << pc, mainI, elapsedMS >>
    /\ UNCHANGED << fileVars, it, idx, tempoVars, ready, poolVars,
                    driveVars, mtxHeld, isClosing, now, startTime, teardowns, floppyNote, parseVars >>

\* every thread is joined
MainJoin ==
    /\ mainPc = "join"
    /\ \A t \in Tracks : pc[t] = "done"
    /\ mainPc' = "cleanup"
    /\ UNCHANGED << fileVars, mainI, pc, it, elapsedMS, idx, tempoVars, ready, poolVars,
                    driveVars, mtxHeld, isClosing, now, startTime, teardowns, floppyNote, parseVars >>

\* fault variant: the start instant is taken again for every track
MainSeqRestartsClock ==
    /\ mainPc = "seq"
    /\ IF mainI < NumTracks
       THEN /\ pc' = [pc EXCEPT ![mainI] = "top"]
            /\ elapsedMS' = [elapsedMS EXCEPT ![mainI] = 0]
            /\ startTime' = now
            /\ mainPc' = "inTrack"
       ELSE /\ mainPc' = "cleanup"
            /\ UNCHANGED << pc, elapsedMS, startTime >>
    /\ UNCHANGED << fileVars, mainI, it, idx, tempoVars, ready, poolVars,
                    driveVars, mtxHeld, isClosing, now, teardowns, floppyNote, parseVars >>

\* format # 1: for (i = 0; i < chunks.size(); ++i) playTrack(i), in this thread
MainSeq ==
    /\ mainPc = "seq"
    /\ IF mainI < NumTracks
       THEN /\ pc' = [pc EXCEPT ![mainI] = "top"]
            /\ elapsedMS' = [elapsedMS EXCEPT ![mainI] = 0]
            /\ mainPc' = "inTrack"
       ELSE /\ mainPc' = "cleanup"
            /\ UNCHANGED << pc, elapsedMS >>
    /\ UNCHANGED << fileVars, mainI, it, idx, tempoVars, ready, poolVars,
                    driveVars, mtxHeld, isClosing, now, startTime, teardowns, floppyNote, parseVars >>

MainSeqReturn ==
    /\ mainPc = "inTrack"
    /\ pc[mainI] = "done"
    /\ mainI' = mainI + 1
    /\ mainPc' = "seq"
    /\ UNCHANGED << fileVars, pc, it, elapsedMS, idx, tempoVars, ready, poolVars,
                    driveVars, mtxHeld, isClosing, now, startTime, teardowns, floppyNote, parseVars >>

\* cleanUpAudio(); cleanUpMemory(); at the end of playMusic
MainCleanUp ==
    /\ mainPc = "cleanup"
    /\ mainPc' = "finished"
    /\ stream' = cleanUpAudio(stream)
    /\ teardowns' = teardowns + 1
    /\ floppyNote' = floppyNote
    /\ UNCHANGED << fileVars, mainI, pc, it, elapsedMS, idx, tempoVars, ready,
                    availablePlayIndices, activeNotes, driveVars, mtxHeld,
                    isClosing, now, startTime, parseVars >>

(***************************************************************************)
(* MIDI::playTrack(t).                                                     *)
(***************************************************************************)
NonZeroDelta(t) == Ev(t).deltaTime # 0

\* if (isClosing) ... else the switch
AfterClosingCheck == IF isClosing THEN "closing" ELSE "disp"

\* the loop ends
TopDone(t) ==
    /\ pc[t] = "top"
    /\ ~AtEvent(t)
    /\ pc' = [pc EXCEPT ![t] = "done"]
    /\ UNCHANGED << fileVars, mainVars, it, elapsedMS, idx, tempoVars, ready, poolVars,
                    driveVars, mtxHeld, isClosing, now, startTime, teardowns, floppyNote, parseVars >>

\* fault variant: track 0 releases the launcher at its first event, whatever
\* its delta-time
TopZeroSetsReady(t) ==
    /\ pc[t] = "top"
    /\ AtEvent(t)
    /\ ~NonZeroDelta(t)
    /\ pc' = [pc EXCEPT ![t] = AfterClosingCheck]
    /\ ready' = IF t = 0 THEN TRUE ELSE ready
    /\ UNCHANGED << fileVars, mainVars, it, elapsedMS, idx, tempoVars, poolVars,
                    driveVars, mtxHeld, isClosing, now, startTime, teardowns, floppyNote, parseVars >>

\* fault variant: with deltaTime = 0 the event goes to the switch without
\* the isClosing check
TopZeroSkipsCheck(t) ==
    /\ pc[t] = "top"
    /\ AtEvent(t)
    /\ ~NonZeroDelta(t)
    /\ pc' = [pc EXCEPT ![t] = "disp"]
    /\ UNCHANGED << fileVars, mainVars, it, elapsedMS, idx, tempoVars, ready, poolVars,
                    driveVars, mtxHeld, isClosing, now, startTime, teardowns, floppyNote, parseVars >>

\* deltaTime = 0: straight to the isClosing check
TopZero(t) ==
    /\ pc[t] = "top"
    /\ AtEvent(t)
    /\ ~NonZeroDelta(t)
    /\ pc' = [pc EXCEPT ![t] = AfterClosingCheck]
    /\ UNCHANGED << fileVars, mainVars, it, elapsedMS, idx, tempoVars, ready, poolVars,
                    driveVars, mtxHeld, isClosing, now, startTime, teardowns, floppyNote, parseVars >>

\* deltaTime # 0 in track 0: ready = true
TopReady(t) ==
    /\ pc[t] = "top"
    /\ AtEvent(t)
    /\ NonZeroDelta(t)
    /\ t = 0
    /\ ready' = TRUE
    /\ pc' = [pc EXCEPT ![t] = "notify"]
    /\ UNCHANGED << fileVars, mainVars, it, elapsedMS, idx, tempoVars, poolVars,
                    driveVars, mtxHeld, isClosing, now, startTime, teardowns, floppyNote, parseVars >>

\* cv.notify_one(): wakes the launcher if it is waiting, else does nothing
NotifyOne == IF mainPc = "blocked" THEN "pred" ELSE mainPc

Notify(t) ==
    /\ pc[t] = "notify"
    /\ mainPc' = NotifyOne
    /\ pc' = [pc EXCEPT ![t] = "calc"]
    /\ UNCHANGED << fileVars, mainI, it, elapsedMS, idx, tempoVars, ready, poolVars,
                    driveVars, mtxHeld, isClosing, now, startTime, teardowns, floppyNote, parseVars >>

\* fault variant: the gap is added to the time of the computation, not to
\* the previous deadline
DeadlineFromNow(t) ==
    (now - startTime) + (Ev(t).deltaTime * MILLISECONDS_PER_SECOND) \div ticksPerSecond

\* elapsedMS += (double)deltaTime / ticksPerSecond * MILLISECONDS_PER_SECOND
NextDeadline(t) ==
    elapsedMS[t] + (Ev(t).deltaTime * MILLISECONDS_PER_SECOND) \div ticksPerSecond

\* mtx.lock(); elapsedMS += ...; mtx.unlock(); then sleep_until is entered
Calc(t) ==
    /\ IF pc[t] = "top"
       THEN AtEvent(t) /\ NonZeroDelta(t) /\ t # 0
       ELSE pc[t] = "calc"
    /\ ~mtxHeld
    /\ elapsedMS' = [elapsedMS EXCEPT ![t] = NextDeadline(t)]
    /\ pc' = [pc EXCEPT ![t] = "sleep"]
    /\ UNCHANGED << fileVars, mainVars, it, idx, tempoVars, ready, poolVars,
                    driveVars, mtxHeld, isClosing, now, startTime, teardowns, floppyNote, parseVars >>

\* fault variant: the sleep returns at once
WakeEarly(t) ==
    /\ pc[t] = "sleep"
    /\ pc' = [pc EXCEPT ![t] = AfterClosingCheck]
    /\ UNCHANGED << fileVars, mainVars, it, elapsedMS, idx, tempoVars, ready, poolVars,
                    driveVars, mtxHeld, isClosing, now, startTime, teardowns, floppyNote, parseVars >>

\* sleep_until(startTime + elapsedMS) returns; isClosing is read
Wake(t) ==
    /\ pc[t] = "sleep"
    /\ now >= startTime + elapsedMS[t]
    /\ pc' = [pc EXCEPT ![t] = AfterClosingCheck]
    /\ UNCHANGED << fileVars, mainVars, it, elapsedMS, idx, tempoVars, ready, poolVars,
                    driveVars, mtxHeld, isClosing, now, startTime, teardowns, floppyNote, parseVars >>

\* fault variant: the thread goes on to the clean-up without taking mtx
LockForCleanUpSkipsLock(t) ==
    /\ pc[t] = "closing"
    /\ pc' = [pc EXCEPT ![t] = "cleanup"]
    /\ UNCHANGED << fileVars, mainVars, it, elapsedMS, idx, tempoVars, ready, poolVars,
                    driveVars, mtxHeld, isClosing, now, startTime, teardowns, floppyNote, parseVars >>

\* isClosing was read true: mtx.lock(), never unlocked
LockForCleanUp(t) ==
    /\ pc[t] = "closing"
    /\ ~mtxHeld
    /\ mtxHeld' = TRUE
    /\ pc' = [pc EXCEPT ![t] = "cleanup"]
    /\ UNCHANGED << fileVars, mainVars, it, elapsedMS, idx, tempoVars, ready, poolVars,
                    driveVars, isClosing, now, startTime, teardowns, floppyNote, parseVars >>

\* cleanUpAudio(); cleanUpMemory(); the other threads run meanwhile
\* (cleanUpAudio waits MS_TO_WAIT_AFTER_PLAYING before it deletes the stream)
CleanUp(t) ==
    /\ pc[t] = "cleanup"
    /\ pc' = [pc EXCEPT ![t] = "exit"]
    /\ stream' = cleanUpAudio(stream)
    /\ teardowns' = teardowns + 1
    /\ floppyNote' = floppyNote
    /\ UNCHANGED << fileVars, mainVars, it, elapsedMS, idx, tempoVars, ready,
                    availablePlayIndices, activeNotes, driveVars, mtxHeld,
                    isClosing, now, startTime, parseVars >>

\* exit(EXIT_FAILURE): the process and every thread of it end
Exit(t) ==
    /\ pc[t] = "exit"
    /\ pc' = [u \in Tracks |-> "exited"]
    /\ mainPc' = "exited"
    /\ UNCHANGED << fileVars, mainI, it, elapsedMS, idx, tempoVars, ready, poolVars,
                    driveVars, mtxHeld, isClosing, now, startTime, teardowns, floppyNote, parseVars >>

\* fault variant: the iterator skips an event
NextEventSkips(t) ==
    /\ it' = [it EXCEPT ![t] = @ + 2]
    /\ pc' = [pc EXCEPT ![t] = "top"]

\* the end of the loop body: ++it
NextEvent(t) ==
    /\ it' = [it EXCEPT ![t] = @ + 1]
    /\ pc' = [pc EXCEPT ![t] = "top"]

\* case 0x51, under mtx: usecPerQtrNote = ...; decodeDivision()
DispatchSetTempo(t) ==
    /\ pc[t] = "disp"
    /\ IsSetTempo(Ev(t))
    /\ ~mtxHeld
    /\ usecPerQtrNote' = ThreeBinaryBytesDirectToInt(Ev(t).bytes)
    /\ ticksPerSecond' = decodeDivision(division, ThreeBinaryBytesDirectToInt(Ev(t).bytes))
    /\ NextEvent(t)
    /\ UNCHANGED << fileVars, mainVars, elapsedMS, idx, ready, poolVars,
                    driveVars, mtxHeld, isClosing, now, startTime, teardowns, floppyNote, parseVars >>

(***************************************************************************)
(* The two sections of playTrack under mtx, statement by statement: the    *)
(* deadline computation and case 0x51.  Calc and DispatchSetTempo above    *)
(* take each section as one step.                                          *)
(***************************************************************************)
\* mtx.lock() before elapsedMS += ...
CalcLock(t) ==
    /\ IF pc[t] = "top"
       THEN AtEvent(t) /\ NonZeroDelta(t) /\ t # 0
       ELSE pc[t] = "calc"
    /\ ~mtxHeld
    /\ mtxHeld' = TRUE
    /\ pc' = [pc EXCEPT ![t] = "calcRead"]
    /\ UNCHANGED << fileVars, mainVars, it, elapsedMS, idx, tempoVars, ready, poolVars,
                    driveVars, isClosing, now, startTime, teardowns, floppyNote, parseVars >>

\* elapsedMS += (double)deltaTime / ticksPerSecond * ...; mtx.unlock()
CalcRead(t) ==
    /\ pc[t] = "calcRead"
    /\ elapsedMS' = [elapsedMS EXCEPT ![t] = NextDeadline(t)]
    /\ mtxHeld' = FALSE
    /\ pc' = [pc EXCEPT ![t] = "sleep"]
    /\ UNCHANGED << fileVars, mainVars, it, idx, tempoVars, ready, poolVars,
                    driveVars, isClosing, now, startTime, teardowns, floppyNote, parseVars >>

\* fault variant: case 0x51 goes on without mtx
TempoSkipsLock(t) ==
    /\ pc[t] = "disp"
    /\ IsSetTempo(Ev(t))
    /\ pc' = [pc EXCEPT ![t] = "tempoUsec"]
    /\ UNCHANGED << fileVars, mainVars, it, elapsedMS, idx, tempoVars, ready, poolVars,
                    driveVars, mtxHeld, isClosing, now, startTime, teardowns, floppyNote, parseVars >>

\* case 0x51: mtx.lock()
TempoLock(t) ==
    /\ pc[t] = "disp"
    /\ IsSetTempo(Ev(t))
    /\ ~mtxHeld
    /\ mtxHeld' = TRUE
    /\ pc' = [pc EXCEPT ![t] = "tempoUsec"]
    /\ UNCHANGED << fileVars, mainVars, it, elapsedMS, idx, tempoVars, ready, poolVars,
                    driveVars, isClosing, now, startTime, teardowns, floppyNote, parseVars >>

\* usecPerQtrNote = ThreeBinaryBytesDirectToInt(bytes)
TempoWrite(t) ==
    /\ pc[t] = "tempoUsec"
    /\ usecPerQtrNote' = ThreeBinaryBytesDirectToInt(Ev(t).bytes)
    /\ pc' = [pc EXCEPT ![t] = "tempoDecode"]
    /\ UNCHANGED << fileVars, mainVars, it, elapsedMS, idx, ticksPerSecond, ready,
                    poolVars, driveVars, mtxHeld, isClosing, now, startTime,
                    teardowns, floppyNote, parseVars >>

\* decodeDivision(); mtx.unlock()
TempoDecode(t) ==
    /\ pc[t] = "tempoDecode"
    /\ ticksPerSecond' = decodeDivision(division, usecPerQtrNote)
    /\ mtxHeld' = FALSE
    /\ NextEvent(t)
    /\ UNCHANGED << fileVars, mainVars, elapsedMS, idx, usecPerQtrNote, ready,
                    poolVars, driveVars, isClosing, now, startTime, teardowns, floppyNote,
                    parseVars >>

\* case 0x2F: track 0 sets ready, the others do nothing
DispatchEndOfTrack(t) ==
    /\ pc[t] = "disp"
    /\ IsEndOfTrack(Ev(t))
    /\ IF t = 0
       THEN /\ ready' = TRUE
            /\ pc' = [pc EXCEPT ![t] = "eotNotify"]
            /\ it' = it
       ELSE /\ ready' = ready
            /\ NextEvent(t)
    /\ UNCHANGED << fileVars, mainVars, elapsedMS, idx, tempoVars, poolVars,
                    driveVars, mtxHeld, isClosing, now, startTime, teardowns, floppyNote, parseVars >>

EndOfTrackNotify(t) ==
    /\ pc[t] = "eotNotify"
    /\ mainPc' = NotifyOne
    /\ NextEvent(t)
    /\ UNCHANGED << fileVars, mainI, elapsedMS, idx, tempoVars, ready, poolVars,
                    driveVars, mtxHeld, isClosing, now, startTime, teardowns, floppyNote, parseVars >>

\* an event the switch does nothing for
\* case 0xC0 .. 0xCF: channels[status - 0xC0].prog = byte1
DispatchProgramChange(t) ==
    /\ pc[t] = "disp"
    /\ IsProgramChange(Ev(t))
    /\ prog' = [prog EXCEPT ![Ev(t).status - 191] = Ev(t).byte1]
    /\ NextEvent(t)
    /\ UNCHANGED << fileVars, mainVars, elapsedMS, idx, tempoVars, ready, poolVars,
                    channelHasBeenUsed, chanToDrive, freeDrive, volume,
                    expression, pitchBendFactor, mtxHeld, isClosing, now,
                    startTime, teardowns, floppyNote, parseVars >>

\* case 0xB0 .. 0xBF: controller 0x07 is setChannelVolume, 0x0B is
\* setChannelExpression (the member is written, then updatePlayingNotes);
\* any other controller does nothing
DispatchControlChange(t) ==
    /\ pc[t] = "disp"
    /\ IsControlChange(Ev(t))
    /\ LET chan == Ev(t).status - 175
       IN  /\ volume' = IF Ev(t).byte1 = 7
                        THEN [volume EXCEPT ![chan] = Ev(t).byte2] ELSE volume
           /\ expression' = IF Ev(t).byte1 = 11
                            THEN [expression EXCEPT ![chan] = Ev(t).byte2] ELSE expression
           /\ stream' = IF Ev(t).byte1 \in {7, 11}
                        THEN updatePlayingNotes(stream, activeNotes, chan,
                                                pitchBendFactor[chan], volume'[chan],
                                                expression'[chan])
                        ELSE stream
    /\ NextEvent(t)
    /\ UNCHANGED << fileVars, mainVars, elapsedMS, idx, tempoVars, ready,
                    availablePlayIndices, activeNotes, prog, channelHasBeenUsed,
                    chanToDrive, freeDrive, pitchBendFactor, mtxHeld, isClosing,
                    now, startTime, teardowns, floppyNote, parseVars >>

\* case 0xE0 .. 0xEF: MIDI::setPitchBend
DispatchPitchBend(t) ==
    /\ pc[t] = "disp"
    /\ IsPitchBend(Ev(t))
    /\ LET chan == Ev(t).status - 223
       IN  /\ pitchBendFactor' =
                  [pitchBendFactor EXCEPT ![chan] = pitchBendBytesToFactor(pitchBendBytes(Ev(t)))]
           /\ stream' = updatePlayingNotes(stream, activeNotes, chan,
                                           pitchBendFactor'[chan], volume[chan],
                                           expression[chan])
    /\ NextEvent(t)
    /\ UNCHANGED << fileVars, mainVars, elapsedMS, idx, tempoVars, ready,
                    availablePlayIndices, activeNotes, prog, channelHasBeenUsed,
                    chanToDrive, freeDrive, volume, expression, mtxHeld, isClosing,
                    now, startTime, teardowns, floppyNote, parseVars >>

DispatchIgnored(t) ==
    /\ pc[t] = "disp"
    /\ IsIgnored(Ev(t))
    /\ NextEvent(t)
    /\ UNCHANGED << fileVars, mainVars, elapsedMS, idx, tempoVars, ready, poolVars,
                    driveVars, mtxHeld, isClosing, now, startTime, teardowns, floppyNote, parseVars >>

(***************************************************************************)
(* MIDI::noteOn and MIDI::noteOff (PLAY_SINE and                           *)
(* ASSIGN_CHANNELS_TO_DRIVES_SEQUENTIALLY defined, PLAY_FLOPPY not).       *)
(***************************************************************************)
\* noteOff: idx = activeNotes[byte1], read without a lock (idx, a local, is
\* kept while the call uses it)
NoteOffRead(t) ==
    /\ IF activeNotes[NoteSlot(Ev(t))] # NOT_ACTIVE
       THEN /\ idx' = [idx EXCEPT ![t] = activeNotes[NoteSlot(Ev(t))]]
            /\ pc' = [pc EXCEPT ![t] = "offClear"]
            /\ it' = it
       ELSE /\ idx' = idx
            /\ NextEvent(t)
    /\ UNCHANGED << fileVars, mainVars, elapsedMS, tempoVars, ready, poolVars,
                    driveVars, mtxHeld, isClosing, now, startTime, teardowns, floppyNote, parseVars >>

\* playTrack calls noteOff for status 0x80 .. 0x8F
DispatchNoteOff(t) ==
    /\ pc[t] = "disp"
    /\ IsNoteOff(Ev(t))
    /\ NoteOffRead(t)

\* noteOn called noteOff (velocity <= 1 or an invalid program)
NoteOnAsNoteOff(t) ==
    /\ pc[t] = "offRead"
    /\ NoteOffRead(t)

\* stream->stopAudio(idx); activeNotes[byte1] = NOT_ACTIVE
NoteOffClear(t) ==
    /\ pc[t] = "offClear"
    /\ stream' = stopAudio(stream, idx[t])
    /\ activeNotes' = [activeNotes EXCEPT ![NoteSlot(Ev(t))] = NOT_ACTIVE]
    /\ pc' = [pc EXCEPT ![t] = "offPush"]
    /\ UNCHANGED << fileVars, mainVars, it, elapsedMS, idx, tempoVars, ready,
                    availablePlayIndices, driveVars, mtxHeld, isClosing,
                    now, startTime, teardowns, floppyNote, parseVars >>

\* fault variant: the play index is pushed twice
NoteOffPushTwice(t) ==
    /\ pc[t] = "offPush"
    /\ ~mtxHeld
    /\ availablePlayIndices' = Append(Append(availablePlayIndices, idx[t]), idx[t])
    /\ idx' = [idx EXCEPT ![t] = 0]
    /\ NextEvent(t)
    /\ UNCHANGED << fileVars, mainVars, elapsedMS, tempoVars, ready, activeNotes,
                    stream, driveVars, mtxHeld, isClosing, now, startTime, teardowns, floppyNote,
                    parseVars >>

\* mtx.lock(); availablePlayIndices.push(idx); mtx.unlock()
NoteOffPush(t) ==
    /\ pc[t] = "offPush"
    /\ ~mtxHeld
    /\ availablePlayIndices' = Append(availablePlayIndices, idx[t])
    /\ idx' = [idx EXCEPT ![t] = 0]
    /\ NextEvent(t)
    /\ UNCHANGED << fileVars, mainVars, elapsedMS, tempoVars, ready, activeNotes,
                    stream, driveVars, mtxHeld, isClosing, now, startTime, teardowns, floppyNote,
                    parseVars >>

\* noteOn: the test chan != 10 && !channelHasBeenUsed && !invalidProg(prog)
DispatchNoteOn(t) ==
    /\ pc[t] = "disp"
    /\ IsNoteOn(Ev(t))
    /\ LET chan == NoteChan(Ev(t))
       IN  IF chan # EFFECTS_CHANNEL /\ ~channelHasBeenUsed[chan] /\ ~invalidProg(prog[chan])
           THEN pc' = [pc EXCEPT ![t] = "onAssign"]
           ELSE pc' = [pc EXCEPT ![t] = "onVelocity"]
    /\ UNCHANGED << fileVars, mainVars, it, elapsedMS, idx, tempoVars, ready, poolVars,
                    driveVars, mtxHeld, isClosing, now, startTime, teardowns, floppyNote, parseVars >>

\* fault variant: a drive is assigned without the test freeDrive < MAX_DRIVES
NoteOnAssignDriveUnbounded(t) ==
    /\ pc[t] = "onAssign"
    /\ ~mtxHeld
    /\ LET chan == NoteChan(Ev(t))
       IN  /\ channelHasBeenUsed' = [channelHasBeenUsed EXCEPT ![chan] = TRUE]
           /\ chanToDrive' = [chanToDrive EXCEPT ![chan] = freeDrive]
           /\ freeDrive' = (freeDrive + 1) % 256
    /\ pc' = [pc EXCEPT ![t] = "onVelocity"]
    /\ UNCHANGED << fileVars, mainVars, it, elapsedMS, idx, tempoVars, ready, poolVars,
                    prog, volume, expression, pitchBendFactor, mtxHeld,
                    isClosing, now, startTime, teardowns, floppyNote, parseVars >>

\* channelHasBeenUsed = true; under mtx: if (freeDrive < MAX_DRIVES)
\* chanToDrive = freeDrive++ (freeDrive is a uint8_t)
NoteOnAssignDrive(t) ==
    /\ pc[t] = "onAssign"
    /\ ~mtxHeld
    /\ LET chan == NoteChan(Ev(t))
       IN  /\ channelHasBeenUsed' = [channelHasBeenUsed EXCEPT ![chan] = TRUE]
           /\ IF freeDrive < MAX_DRIVES
              THEN /\ chanToDrive' = [chanToDrive EXCEPT ![chan] = freeDrive]
                   /\ freeDrive' = (freeDrive + 1) % 256
              ELSE UNCHANGED << chanToDrive, freeDrive >>
    /\ pc' = [pc EXCEPT ![t] = "onVelocity"]
    /\ UNCHANGED << fileVars, mainVars, it, elapsedMS, idx, tempoVars, ready, poolVars,
                    prog, volume, expression, pitchBendFactor, mtxHeld,
                    isClosing, now, startTime, teardowns, floppyNote, parseVars >>

\* fault variant: a voiced note-on takes a new play index whether the note
\* is active or not
NoteOnReadAlwaysNew(t) ==
    /\ pc[t] = "onVelocity"
    /\ IF Ev(t).byte2 <= 1 \/ invalidProg(prog[NoteChan(Ev(t))])
       THEN pc' = [pc EXCEPT ![t] = "offRead"]
       ELSE pc' = [pc EXCEPT ![t] = "onAcquire"]
    /\ UNCHANGED << fileVars, mainVars, it, elapsedMS, idx, tempoVars, ready, poolVars,
                    driveVars, mtxHeld, isClosing, now, startTime, teardowns, floppyNote, parseVars >>

\* if (velocity <= 1 || invalidProg(prog)) { noteOff(chan, evt); return; }
\* else idx = activeNotes[byte1], read without a lock; a note that is
\* already active only has its frequency and velocity set again
NoteOnRead(t) ==
    /\ pc[t] = "onVelocity"
    /\ IF Ev(t).byte2 <= 1 \/ invalidProg(prog[NoteChan(Ev(t))])
       THEN /\ pc' = [pc EXCEPT ![t] = "offRead"]
            /\ it' = it
            /\ stream' = stream
       ELSE IF activeNotes[NoteSlot(Ev(t))] = NOT_ACTIVE
            THEN /\ pc' = [pc EXCEPT ![t] = "onAcquire"]
                 /\ it' = it
                 /\ stream' = stream
            ELSE /\ stream' = SetFreqsVels(stream, activeNotes[NoteSlot(Ev(t))], Ev(t))
                 /\ NextEvent(t)
    /\ UNCHANGED << fileVars, mainVars, elapsedMS, idx, tempoVars, ready,
                    availablePlayIndices, activeNotes, driveVars, mtxHeld,
                    isClosing, now, startTime, teardowns, floppyNote, parseVars >>

\* fault variant: with no free index, play index 0 is taken all the same
NoteOnAcquireSteals(t) ==
    /\ pc[t] = "onAcquire"
    /\ ~mtxHeld
    /\ LET h == IF Len(availablePlayIndices) = 0 THEN 0 ELSE Head(availablePlayIndices)
       IN  /\ activeNotes' = [activeNotes EXCEPT ![NoteSlot(Ev(t))] = h]
           /\ availablePlayIndices' =
                  IF Len(availablePlayIndices) = 0 THEN << >> ELSE Tail(availablePlayIndices)
           /\ idx' = [idx EXCEPT ![t] = h]
    /\ pc' = [pc EXCEPT ![t] = "onStart"]
    /\ UNCHANGED << it, stream >>
    /\ UNCHANGED << fileVars, mainVars, elapsedMS, tempoVars, ready,
                    driveVars, mtxHeld, isClosing, now, startTime, teardowns, floppyNote, parseVars >>

\* under mtx: no free index: a message is printed and the call ends; else
\* idx = activeNotes[byte1] = availablePlayIndices.front(); pop()
NoteOnAcquire(t) ==
    /\ pc[t] = "onAcquire"
    /\ ~mtxHeld
    /\ IF Len(availablePlayIndices) = 0
       THEN /\ NextEvent(t)
            /\ UNCHANGED << poolVars, idx >>
       ELSE /\ activeNotes' = [activeNotes EXCEPT ![NoteSlot(Ev(t))] = Head(availablePlayIndices)]
            /\ availablePlayIndices' = Tail(availablePlayIndices)
            /\ idx' = [idx EXCEPT ![t] = Head(availablePlayIndices)]
            /\ pc' = [pc EXCEPT ![t] = "onStart"]
            /\ UNCHANGED << it, stream >>
    /\ UNCHANGED << fileVars, mainVars, elapsedMS, tempoVars, ready,
                    driveVars, mtxHeld, isClosing, now, startTime, teardowns, floppyNote, parseVars >>

\* after mtx.unlock(): stream->setFreqs, setVels, startAudio for idx
NoteOnStart(t) ==
    /\ pc[t] = "onStart"
    /\ stream' = startAudio(SetFreqsVels(stream, idx[t], Ev(t)), idx[t])
    /\ idx' = [idx EXCEPT ![t] = 0]
    /\ NextEvent(t)
    /\ UNCHANGED << fileVars, mainVars, elapsedMS, tempoVars, ready,
                    availablePlayIndices, activeNotes, driveVars, mtxHeld,
                    isClosing, now, startTime, teardowns, floppyNote, parseVars >>

(***************************************************************************)
(* noteOn's block for the drives (PLAY_FLOPPY; the build of this           *)
(* repository does not define it).  note is a uint8_t.                     *)
(***************************************************************************)
\* while (note > MAX_FLOPPY_NOTE) note -= NUM_SEMITONES_IN_OCTAVE
RECURSIVE DropOctaves(_)
DropOctaves(note) ==
    IF note > MAX_FLOPPY_NOTE
    THEN DropOctaves((note + 256 - NUM_SEMITONES_IN_OCTAVE) % 256)
    ELSE note

\* while (note < MIN_FLOPPY_NOTE) note += NUM_SEMITONES_IN_OCTAVE
RECURSIVE ClimbOctaves(_)
ClimbOctaves(note) ==
    IF note < MIN_FLOPPY_NOTE
    THEN ClimbOctaves((note + NUM_SEMITONES_IN_OCTAVE) % 256)
    ELSE note

\* uint8_t note = evt->byte1 - NOTE_DOWN_SHIFT_SEMITONES, then the two loops
FloppyNote(byte1) ==
    ClimbOctaves(DropOctaves((byte1 + 256 - NOTE_DOWN_SHIFT_SEMITONES) % 256))

\* if (serial->isConnected() && chanToDrive != CHANNEL_NOT_ASSIGNED):
\* floppyFreq = noteToFreq(note), with the serial port connected
NoteOnFloppy(t) ==
    /\ pc[t] = "onFloppy"
    /\ IF chanToDrive[NoteChan(Ev(t))] # CHANNEL_NOT_ASSIGNED
       THEN floppyNote' = FloppyNote(Ev(t).byte1)
       ELSE floppyNote' = floppyNote
    /\ NextEvent(t)
    /\ UNCHANGED << fileVars, mainVars, elapsedMS, idx, tempoVars, ready, poolVars,
                    driveVars, mtxHeld, isClosing, now, startTime, teardowns,
                    parseVars >>

(***************************************************************************)
(* The environment: the clock and the signal handler.                      *)
(***************************************************************************)
\* time passes while some thread is in sleep_until (nothing else reads the
\* clock); a sleeper may wake late
Tick ==
    /\ \E t \in Tracks : pc[t] = "sleep"
    /\ now + TickMS <= MaxNow
    /\ now' = now + TickMS
    /\ UNCHANGED << fileVars, mainVars, pc, it, elapsedMS, idx, tempoVars, ready, poolVars,
                    driveVars, mtxHeld, isClosing, startTime, teardowns, floppyNote, parseVars >>

\* CtrlHandler: midi.isClosing = true
CtrlHandler ==
    /\ ~isClosing
    /\ mainPc \notin {"finished", "exited"}
    /\ mainPc = "parse" => parsePc \in {"header", "chunks", "events"}
    /\ isClosing' = TRUE
    /\ UNCHANGED << fileVars, mainVars, pc, it, elapsedMS, idx, tempoVars, ready, poolVars,
                    driveVars, mtxHeld, now, startTime, teardowns, floppyNote, parseVars >>

(***************************************************************************)
(* The decoder: one call of readVariableLengthQuantity.                    *)
(***************************************************************************)
ReadQuantity ==
    /\ mainPc = "parse"
    /\ parsePc = "start"
    /\ vlq' = readVariableLengthQuantity(rawMIDI, pos).value
    /\ pos' = readVariableLengthQuantity(rawMIDI, pos).pos
    /\ parsePc' = "read"
    /\ UNCHANGED << fileVars, mainVars, pc, it, elapsedMS, idx, tempoVars, ready, poolVars,
                    driveVars, mtxHeld, isClosing, now, startTime, teardowns, floppyNote, rawMIDI, written,
                    chunkVars >>

(***************************************************************************)
(* MIDI::parseMIDIFile, one step per call of parseHeader, of parseChunk's  *)
(* beginning, of parseMTrkEvent and of parseChunk's end.  parsePc ends as  *)
(* "ok" (true is returned), "failed" (false is returned) or "crashed" (the *)
(* process is terminated by the exception of substr or by a fault).        *)
(***************************************************************************)
MThd == << 77, 84, 104, 100 >>
MTrk == << 77, 84, 114, 107 >>

\* bytes the program reads without having written them
UndefinedBytes == {0, 255}
Slacks == {<< >>, << 0 >>, << 255, 0 >>}

Parsing == mainPc = "parse"

ParseUnchanged ==
    UNCHANGED << mainVars, pc, it, elapsedMS, idx, tempoVars, ready, poolVars,
                 driveVars, mtxHeld, isClosing, now, startTime, teardowns, floppyNote, rawMIDI, vlq,
                 written >>

ParseHeaderRejects ==
    /\ Parsing
    /\ parsePc = "header"
    /\ Len(rawMIDI) < 5 \/ substr(rawMIDI, 0, 4) # MThd
    /\ pos' = 0
    /\ parsePc' = "failed"
    /\ UNCHANGED << fileVars, chunkVars >>
    /\ ParseUnchanged

\* fault variant: the cursor is left after the three fields read
HeaderEndAfterFields(length) == 4 + 4 + 6

\* pos = 4 + 4 + header.length
HeaderEnd(length) == 4 + 4 + length

ParseHeader ==
    /\ Parsing
    /\ parsePc = "header"
    /\ Len(rawMIDI) >= 5
    /\ substr(rawMIDI, 0, 4) = MThd
    /\ \E g \in UndefinedBytes :
        LET length == readFourBinaryBytes(rawMIDI, 4, g)
            fmt    == readTwoBinaryBytes(rawMIDI, length.pos, g)
            n      == readTwoBinaryBytes(rawMIDI, fmt.pos, g)
            dv     == readTwoBinaryBytes(rawMIDI, n.pos, g)
        IN  IF length.threw \/ fmt.threw \/ n.threw \/ dv.threw
            THEN /\ parsePc' = "crashed"
                 /\ truncated' = TRUE
                 /\ pos' = 4
                 /\ UNCHANGED << fileVars, ntrks, hdrLength >>
            ELSE /\ hdrLength' = length.value
                 /\ format' = fmt.value
                 /\ ntrks' = n.value
                 /\ division' = dv.value
                 /\ pos' = HeaderEnd(length.value)
                 /\ truncated' = (length.past \/ fmt.past \/ n.past \/ dv.past
                                    \/ HeaderEnd(length.value) > Len(rawMIDI))
                 /\ parsePc' = "chunks"
                 /\ UNCHANGED chunks
    /\ UNCHANGED << runningStatus, chunkEnd, mtrkEvents >>
    /\ ParseUnchanged

\* fault variant: the number of chunks is compared with header.ntrks
ParseChecksCount ==
    /\ Parsing
    /\ parsePc = "chunks"
    /\ pos >= Len(rawMIDI)
    /\ parsePc' = IF Len(chunks) = ntrks THEN "ok" ELSE "failed"
    /\ UNCHANGED << fileVars, pos, chunkVars >>
    /\ ParseUnchanged

\* while (pos < fileSize) is left: parseMIDIFile returns true
ParseReturnsTrue ==
    /\ Parsing
    /\ parsePc = "chunks"
    /\ pos >= Len(rawMIDI)
    /\ parsePc' = "ok"
    /\ UNCHANGED << fileVars, pos, chunkVars >>
    /\ ParseUnchanged

ParseChunkRejects ==
    /\ Parsing
    /\ parsePc = "chunks"
    /\ pos < Len(rawMIDI)
    /\ substr(rawMIDI, pos, 4) # MTrk
    /\ parsePc' = "failed"
    /\ UNCHANGED << fileVars, pos, chunkVars >>
    /\ ParseUnchanged

ParseChunkBegin ==
    /\ Parsing
    /\ parsePc = "chunks"
    /\ pos < Len(rawMIDI)
    /\ substr(rawMIDI, pos, 4) = MTrk
    /\ \E g \in UndefinedBytes :
        LET length == readFourBinaryBytes(rawMIDI, pos + 4, g)
        IN  IF length.threw
            THEN /\ parsePc' = "crashed"
                 /\ truncated' = TRUE
                 /\ UNCHANGED << pos, chunkEnd >>
            ELSE /\ pos' = length.pos
                 /\ chunkEnd' = length.pos + length.value
                 /\ truncated' = (truncated \/ length.past
                                    \/ length.pos + length.value > Len(rawMIDI))
                 /\ parsePc' = "events"
    /\ runningStatus' = 0
    /\ mtrkEvents' = << >>
    /\ UNCHANGED << fileVars, ntrks, hdrLength >>
    /\ ParseUnchanged

ParseMTrkEvent ==
    /\ Parsing
    /\ parsePc = "events"
    /\ pos < chunkEnd
    /\ \E sl \in Slacks :
        LET r == parseMTrkEvent(rawMIDI, sl, pos, runningStatus)
        IN  IF r.threw
            THEN /\ parsePc' = "crashed"
                 /\ truncated' = TRUE
                 /\ UNCHANGED << pos, runningStatus, mtrkEvents >>
            ELSE /\ mtrkEvents' = Append(mtrkEvents, r.evt)
                 /\ pos' = r.pos
                 /\ runningStatus' = r.runningStatus
                 /\ truncated' = (truncated \/ r.past)
                 /\ parsePc' = "events"
    /\ UNCHANGED << fileVars, ntrks, hdrLength, chunkEnd >>
    /\ ParseUnchanged

\* the end of parseChunk and, back in parseMIDIFile, the test of isClosing;
\* cleanUpMemory deletes the events and leaves the vector chunks as long as
\* it was
ParseChunkEnd ==
    /\ Parsing
    /\ parsePc = "events"
    /\ pos >= chunkEnd
    /\ chunks' = Append(chunks, mtrkEvents)
    /\ mtrkEvents' = << >>
    /\ parsePc' = IF isClosing THEN "failed" ELSE "chunks"
    /\ UNCHANGED << format, division, pos, ntrks, hdrLength, runningStatus,
                    chunkEnd, truncated >>
    /\ ParseUnchanged

parseMIDIFile ==
    \/ ParseHeaderRejects
    \/ ParseHeader
    \/ ParseReturnsTrue
    \/ ParseChunkRejects
    \/ ParseChunkBegin
    \/ ParseMTrkEvent
    \/ ParseChunkEnd

(***************************************************************************)
(* Initial states.  playMusic is entered after parseMIDIFile and           *)
(* stepThroughCompletedMidiStructure: the tempo, the pool, activeNotes and *)
(* channelHasBeenUsed are overwritten by playMusic; prog, chanToDrive and  *)
(* freeDrive are as stepThroughCompletedMidiStructure leaves them for a    *)
(* file without program changes.                                           *)
(***************************************************************************)
SeqsUpTo(S, n) == UNION { [1 .. k -> S] : k \in 0 .. n }

\* no chunk is being parsed
\* the members of the global object midi that nothing has written yet
NoSound ==
    /\ stream = << >>
    /\ pitchBendFactor = [c \in Channels |-> 0]

NoChunk ==
    /\ ntrks = 0
    /\ hdrLength = 0
    /\ runningStatus = 0
    /\ chunkEnd = 0
    /\ mtrkEvents = << >>
    /\ truncated = FALSE

\* MIDI::stepThroughCompletedMidiStructure, run by main between the parse
\* and playMusic: every prog is set to DEFAULT_INSTRUMENT, then the events
\* are logged chunk after chunk, and logging a program change
\* (extractProgramChange) stores its program in the channel
RECURSIVE LoggedProg(_, _)
LoggedProg(evts, pr) ==
    IF evts = << >>
    THEN pr
    ELSE LoggedProg(Tail(evts),
                    IF IsProgramChange(Head(evts))
                    THEN [pr EXCEPT ![Head(evts).status - 191] = Head(evts).byte1]
                    ELSE pr)

RECURSIVE stepThroughCompletedMidiStructure(_, _)
stepThroughCompletedMidiStructure(ch, pr) ==
    IF ch = << >>
    THEN pr
    ELSE stepThroughCompletedMidiStructure(Tail(ch), LoggedProg(Head(ch), pr))

EnterPlayMusic(f, d, ch) ==
    /\ format = f
    /\ division = d
    /\ chunks = ch
    /\ mainPc = "setup"
    /\ mainI = 0
    /\ pc = [t \in 0 .. (Len(ch) - 1) |-> "idle"]
    /\ it = [t \in 0 .. (Len(ch) - 1) |-> 1]
    /\ elapsedMS = [t \in 0 .. (Len(ch) - 1) |-> 0]
    /\ idx = [t \in 0 .. (Len(ch) - 1) |-> 0]
    /\ ticksPerSecond = 0
    /\ usecPerQtrNote = 0
    /\ ready = FALSE
    /\ availablePlayIndices = << >>
    /\ activeNotes = [s \in Slots |-> 0]
    /\ prog = stepThroughCompletedMidiStructure(
                  ch, [c \in Channels |-> DEFAULT_INSTRUMENT])
    /\ channelHasBeenUsed =
           [c \in Channels |->
               \E i \in 1 .. Len(ch) : \E k \in 1 .. Len(ch[i]) :
                   IsNoteOn(ch[i][k]) /\ NoteChan(ch[i][k]) = c]
    /\ chanToDrive = [c \in Channels |-> CHANNEL_NOT_ASSIGNED]
    /\ freeDrive = 0
    /\ mtxHeld = FALSE
    /\ isClosing = FALSE
    /\ now = 0
    /\ startTime = 0
    /\ teardowns = 0
    /\ floppyNote = 0
    /\ rawMIDI = << >>
    /\ pos = 0
    /\ vlq = 0
    /\ written = [value |-> 0, at |-> 0]
    /\ parsePc = "idle"
    /\ NoChunk
    /\ NoSound
    /\ volume = [c \in Channels |-> DEFAULT_VOLUME]
    /\ expression = [c \in Channels |-> DEFAULT_EXPRESSION]

\* The generated files have the division 480 ticks per quarter note, tempo
\* changes to 300000 microseconds per quarter note and delta-times of 0, 480
\* and 960 ticks: every rate and deadline is then a whole number, as exact in
\* the program's doubles as here.
Deltas == {0, 480}

\* the file of the end-to-end property and its variants
EndToEndTrack(u, vel) ==
    << SetTempo(0, u), NoteOnEvt(480, 1, 69, vel),
       NoteOffEvt(480, 1, 69), EndOfTrack(0) >>

EndToEndFiles ==
    { << EndToEndTrack(u, vel) >> :
        u \in {MIDI_STANDARD_DEFAULT_USEC_PER_QTR_NOTE, 300000}, vel \in {1, 100} }

\* one track that fills the voice pool: MAX_SIMUL + 1 note-ons on as many
\* channels, a note-off of the first, two more note-ons on new channels
CapacityTrack ==
    [k \in 1 .. (MAX_SIMUL + 4) |->
        IF k <= MAX_SIMUL + 1 THEN NoteOnEvt(0, k, 69, 100)
        ELSE IF k = MAX_SIMUL + 2 THEN NoteOffEvt(0, 1, 69)
        ELSE NoteOnEvt(0, k - 1, 69, 100)]

\* one track with a program change
ProgramTrack ==
    << ProgramChangeEvt(0, 1, 5), NoteOnEvt(0, 1, 69, 100), EndOfTrack(0) >>

\* two tracks, to be played together (format 1) or one after the other
TwoTracks ==
    << << SetTempo(0, 300000), TextEvt(480), EndOfTrack(0) >>,
       << NoteOnEvt(480, 1, 69, 100), NoteOffEvt(480, 1, 69), EndOfTrack(0) >> >>

\* one track with a first note-on on every channel, more channels than
\* there are drives
DriveTrack == [k \in 1 .. NUM_CHANNELS |-> NoteOnEvt(0, k, 69, 1)]

\* the same track played together with a track of note-ons for two of its
\* channels, after a conductor track
DriveRace ==
    << << EndOfTrack(0) >>, DriveTrack,
       << NoteOnEvt(0, MAX_DRIVES + 1, 69, 1), NoteOnEvt(0, MAX_DRIVES + 2, 69, 1) >> >>

\* divisions with bit 15 set: the upper byte is the format's encoding of
\* -24, -25, -29, -30 frames per second, the lower byte 100 ticks per frame
TimecodeDivisions ==
    { 232 * 256 + 100, 231 * 256 + 100, 227 * 256 + 100, 226 * 256 + 100 }

TimecodeTrack == << SetTempo(0, 300000), TextEvt(0), EndOfTrack(0) >>

\* one track with two voices, the controllers 0x07, 0x0B and 0x40, a pitch
\* bend, a system-exclusive and a text event, a second note-on for a voice
\* that sounds, a note-off for a note that does not sound, one for a note
\* that does
ControlTrack ==
    << NoteOnEvt(0, 1, 69, 100), NoteOnEvt(0, 2, 60, 100),
       ControlChangeEvt(0, 1, 7, 80), ControlChangeEvt(0, 1, 11, 90),
       ControlChangeEvt(0, 1, 64, 127), PitchBendEvt(0, 1, 0, 0),
       SysExEvt(0, << 1 >>), TextEvt(0), NoteOnEvt(0, 1, 69, 50),
       NoteOffEvt(0, 1, 60), NoteOffEvt(0, 1, 69), EndOfTrack(0) >>

Init ==
    \/ \E f \in {0, 1},
          ch \in EndToEndFiles \cup {<< CapacityTrack >>, << ProgramTrack >>,
                                     << DriveTrack >>, << ControlTrack >>,
                                     TwoTracks, DriveRace} :
           EnterPlayMusic(f, 480, ch)
    \/ \E d \in TimecodeDivisions : EnterPlayMusic(0, d, << TimecodeTrack >>)

\* tracks of meta events only
TimeAlphabet ==
    UNION { { SetTempo(d, 300000), TextEvt(d) } : d \in Deltas }
        \cup { EndOfTrack(0) }

\* the other track: its events and a tempo change of its own
OtherAlphabet ==
    { SetTempo(0, 300000), TextEvt(480), TextEvt(960) }

InitTime ==
    \E tr0 \in SeqsUpTo(TimeAlphabet, MaxEvents),
       tr1 \in SeqsUpTo(OtherAlphabet, MaxEvents) :
        EnterPlayMusic(1, 480, << tr0, tr1 >>)

\* a conductor track and two tracks of notes, all at delta-time 0
VoiceAlphabet ==
    { NoteOnEvt(0, 1, 69, 100), NoteOffEvt(0, 1, 69), NoteOnEvt(0, 1, 69, 1) }

InitVoice ==
    \E ch \in [2 .. 3 -> SeqsUpTo(VoiceAlphabet, MaxEvents)] :
        EnterPlayMusic(1, 480, << << EndOfTrack(0) >>, ch[2], ch[3] >>)

\* track 1 has one event at delta-time 0
InitLive ==
    \E tr \in SeqsUpTo(TimeAlphabet, MaxEvents) :
        EnterPlayMusic(1, 480, << tr, << TextEvt(0) >> >>)

(***************************************************************************)
(* The decoder's initial states: a quantity in the format's encoding at    *)
(* the cursor, anything after it.                                          *)
(***************************************************************************)
RECURSIVE EncodeMore(_)
\* the bytes before the last one: 7 bits each, the high bit set
EncodeMore(v) ==
    IF v = 0 THEN << >> ELSE Append(EncodeMore(v \div 128), 128 + (v % 128))

EncodeQuantity(v) == Append(EncodeMore(v \div 128), v % 128)

\* every quantity up to MaxDense
MaxDense == 200
QuantityValues ==
    (0 .. MaxDense) \cup
    { 8191, 8192, 16383, 16384, 16385, 1000000, 2097151, 2097152, 2097153,
      134217728, 268435454, 268435455 }

InitVlq ==
    \E v \in QuantityValues, before \in {<< >>, << 255 >>},
       after \in {<< >>, << 0 >>, << 129 >>, << 255, 255 >>} :
        /\ rawMIDI = before \o EncodeQuantity(v) \o after
        /\ pos = Len(before)
        /\ written = [value |-> v, at |-> Len(before)]
        /\ vlq = 0
        /\ parsePc = "start"
        /\ format = 0
        /\ division = 480
        /\ chunks = << >>
        /\ mainPc = "parse"
        /\ mainI = 0
        /\ pc = << >>
        /\ it = << >>
        /\ elapsedMS = << >>
        /\ idx = << >>
        /\ ticksPerSecond = 0
        /\ usecPerQtrNote = 0
        /\ ready = FALSE
        /\ availablePlayIndices = << >>
        /\ activeNotes = [s \in Slots |-> 0]
        /\ prog = [c \in Channels |-> 0]
        /\ channelHasBeenUsed = [c \in Channels |-> FALSE]
        /\ chanToDrive = [c \in Channels |-> 0]
        /\ freeDrive = 0
        /\ mtxHeld = FALSE
        /\ isClosing = FALSE
        /\ now = 0
        /\ startTime = 0
        /\ teardowns = 0
        /\ floppyNote = 0
        /\ NoChunk
        /\ NoSound
        /\ volume = [c \in Channels |-> 0]
        /\ expression = [c \in Channels |-> 0]

(***************************************************************************)
(* Files for the parser.  A file is written from a description: a header   *)
(* (its declared length, its declared number of tracks, the bytes after    *)
(* its first 6 body bytes), track chunks (the events of each and the       *)
(* difference between the declared length and the length of the body), a  *)
(* tail and the number of bytes cut off the end.  The description is kept  *)
(* in written.  Each symbol of a body has its bytes and the event a reader *)
(* of the file format decodes from them; running tells that the bytes      *)
(* leave the status byte out.                                              *)
(***************************************************************************)
Word4(n) == << 0, (n \div 65536) % 256, (n \div 256) % 256, n % 256 >>
Word2(n) == << (n \div 256) % 256, n % 256 >>

Sym(bs, e, r) == [bytes |-> bs, evt |-> e, running |-> r]

\* a channel message with its status byte, at delta-time 0
VoiceSym(st) ==
    IF st \div 16 \in {12, 13}
    THEN Sym(<< 0, st, 5 >>, MidiEvt(0, st, 5, 0), FALSE)
    ELSE Sym(<< 0, st, 60, 100 >>, MidiEvt(0, st, 60, 100), FALSE)

NoteOnSym == VoiceSym(144)
NoteOffSym == Sym(<< 129, 112, 128, 60, 0 >>, MidiEvt(240, 128, 60, 0), FALSE)
ProgramSym == VoiceSym(192)
RunningTwoSym == Sym(<< 0, 60, 0 >>, MidiEvt(0, 0, 60, 0), TRUE)
RunningOneSym == Sym(<< 0, 7 >>, MidiEvt(0, 0, 7, 0), TRUE)
SetTempoSym == Sym(<< 0, 255, 81, 3, 7, 161, 32 >>, SetTempo(0, 500000), FALSE)
SysExSym == Sym(<< 0, 240, 1, 247 >>, SysExEvt(0, << 247 >>), FALSE)

Symbols ==
    { NoteOnSym, NoteOffSym, ProgramSym, RunningTwoSym, RunningOneSym,
      SetTempoSym, SysExSym }

\* longest first chunk, in events; most bytes cut off the end of a file
MaxBody == 2
MaxCut == 2

RECURSIVE BodyBytes(_)
BodyBytes(syms) ==
    IF syms = << >> THEN << >> ELSE Head(syms).bytes \o BodyBytes(Tail(syms))

ChunkBytes(c) ==
    MTrk \o Word4(Len(BodyBytes(c.syms)) + c.off) \o BodyBytes(c.syms)

RECURSIVE ChunksBytes(_)
ChunksBytes(cs) ==
    IF cs = << >> THEN << >> ELSE ChunkBytes(Head(cs)) \o ChunksBytes(Tail(cs))

HeaderBytes(h) ==
    h.tag \o Word4(h.length) \o Word2(1) \o Word2(h.ntrks) \o Word2(480) \o h.extra

FileBytes(w) ==
    LET all == HeaderBytes(w.header) \o ChunksBytes(w.tracks) \o w.tail
    IN  SubSeq(all, 1, Len(all) - w.cut)

Header(n, x) == [tag |-> MThd, length |-> 6 + Len(x), ntrks |-> n, extra |-> x]

\* a header whose tag is not MThd
BadHeader == [Header(1, << >>) EXCEPT !.tag = << 77, 84, 104, 120 >>]

Headers ==
    { Header(n, << >>) : n \in 0 .. 3 }
        \cup { Header(1, x) : x \in {<< 9, 9 >>, << 77, 84 >>} }

\* key pressure, controller, channel pressure and pitch bend, alone and
\* followed by a message without status byte
OtherBodies ==
    UNION { { << VoiceSym(st) >>, << VoiceSym(st), RunningTwoSym >>,
              << VoiceSym(st), RunningOneSym >> } : st \in {160, 176, 208, 224} }

\* a timing clock (status 0xF8, no data byte), at delta-time 0
RealtimeSym == Sym(<< 0, 248 >>, MidiEvt(0, 248, 0, 0), FALSE)

\* a timing clock alone and followed by a note-on
RealtimeBodies == { << RealtimeSym >>, << RealtimeSym, NoteOnSym >> }

FirstChunks ==
    { c \in [syms : SeqsUpTo(Symbols, MaxBody) \cup OtherBodies, off : {-1, 0, 1}] :
        Len(BodyBytes(c.syms)) + c.off >= 0 }

NextChunks == { [syms |-> << y >>, off |-> 0] : y \in {NoteOnSym, RunningTwoSym} }

TrackLists ==
    {<< >>} \cup { << c >> : c \in FirstChunks }
            \cup { << c, d >> : c \in { x \in FirstChunks : x.off = 0 },
                                 d \in NextChunks }

\* a chunk whose tag is not MTrk
BadChunk == << 77, 84, 114, 120, 0, 0, 0, 0 >>

Descriptions ==
    [header : Headers, tracks : TrackLists, tail : {<< >>}, cut : 0 .. MaxCut]
        \cup [header : Headers, tracks : TrackLists, tail : {BadChunk}, cut : {0}]
        \cup [header : {BadHeader},
              tracks : {<< >>, << [syms |-> << NoteOnSym >>, off |-> 0] >>},
              tail : {<< >>}, cut : {0}]
        \cup [header : {Header(1, << >>)}, tracks : {<< >>}, tail : {<< >>},
              cut : {10, 14}]

\* the parser's initial state for the file of description w
InitParseOf(w) ==
    /\ written = w
    /\ rawMIDI = FileBytes(w)
    /\ pos = 0
    /\ vlq = 0
    /\ parsePc = "header"
    /\ NoChunk
    /\ format = 0
    /\ division = 0
    /\ chunks = << >>
    /\ mainPc = "parse"
    /\ mainI = 0
    /\ pc = << >>
    /\ it = << >>
    /\ elapsedMS = << >>
    /\ idx = << >>
    /\ ticksPerSecond = 0
    /\ usecPerQtrNote = 0
    /\ ready = FALSE
    /\ availablePlayIndices = << >>
    /\ activeNotes = [s \in Slots |-> 0]
    /\ prog = [c \in Channels |-> 0]
    /\ channelHasBeenUsed = [c \in Channels |-> FALSE]
    /\ chanToDrive = [c \in Channels |-> 0]
    /\ freeDrive = 0
    /\ mtxHeld = FALSE
    /\ isClosing = FALSE
    /\ now = 0
    /\ startTime = 0
    /\ teardowns = 0
    /\ floppyNote = 0
    /\ NoSound
    /\ volume = [c \in Channels |-> 0]
    /\ expression = [c \in Channels |-> 0]

InitParse == \E w \in Descriptions : InitParseOf(w)

\* files with a timing clock in the first chunk
RealtimeChunks == [syms : RealtimeBodies, off : {-1, 0, 1}]

RealtimeTrackLists ==
    { << c >> : c \in RealtimeChunks }
        \cup { << c, d >> : c \in { x \in RealtimeChunks : x.off = 0 },
                             d \in NextChunks }

RealtimeDescriptions ==
    [header : Headers, tracks : RealtimeTrackLists, tail : {<< >>, BadChunk},
     cut : 0 .. MaxCut]
        \cup [header : {BadHeader}, tracks : {<< >>}, tail : {<< >>}, cut : {0}]

InitRealtime == \E w \in RealtimeDescriptions : InitParseOf(w)

(***************************************************************************)
(* Next-state relations.                                                   *)
(***************************************************************************)
\* playMusic when header.format is 1
MainParallel ==
    \/ Setup
    \/ MainPred
    \/ MainBlock
    \/ SpuriousWakeup
    \/ MainLaunch
    \/ MainJoin
    \/ MainCleanUp

Main ==
    \/ MainParallel
    \/ MainSeq
    \/ MainSeqReturn

\* playTrack's loop, for any track
Control ==
    \/ \E t \in Tracks : TopDone(t)
    \/ \E t \in Tracks : TopZero(t)
    \/ \E t \in Tracks : LockForCleanUp(t)
    \/ \E t \in Tracks : CleanUp(t)
    \/ \E t \in Tracks : Exit(t)
    \/ \E t \in Tracks : DispatchEndOfTrack(t)
    \/ \E t \in Tracks : EndOfTrackNotify(t)

\* its waits and the tempo
Timed ==
    \/ \E t \in Tracks : TopReady(t)
    \/ \E t \in Tracks : Notify(t)
    \/ \E t \in Tracks : Calc(t)
    \/ \E t \in Tracks : Wake(t)
    \/ \E t \in Tracks : DispatchSetTempo(t)

Ignored == \E t \in Tracks : DispatchIgnored(t)

\* noteOn and noteOff
Notes ==
    \/ \E t \in Tracks : DispatchNoteOff(t)
    \/ \E t \in Tracks : NoteOnAsNoteOff(t)
    \/ \E t \in Tracks : NoteOffClear(t)
    \/ \E t \in Tracks : NoteOffPush(t)
    \/ \E t \in Tracks : DispatchNoteOn(t)
    \/ \E t \in Tracks : NoteOnAssignDrive(t)
    \/ \E t \in Tracks : NoteOnRead(t)
    \/ \E t \in Tracks : NoteOnAcquire(t)
    \/ \E t \in Tracks : NoteOnStart(t)

Programs == \E t \in Tracks : DispatchProgramChange(t)

\* control change and pitch bend
Controls ==
    \/ \E t \in Tracks : DispatchControlChange(t)
    \/ \E t \in Tracks : DispatchPitchBend(t)

\* the whole program
Next ==
    \/ Main
    \/ CtrlHandler
    \/ Tick
    \/ Control
    \/ Timed
    \/ Notes
    \/ Programs
    \/ Controls
    \/ Ignored

Spec == Init /\ [][Next]_vars

\* format 1 files of meta events: no note is dispatched
NextTime ==
    \/ MainParallel
    \/ CtrlHandler
    \/ Tick
    \/ Control
    \/ Timed
    \/ Ignored

SpecTime == InitTime /\ [][NextTime]_vars

\* format 1 files of notes at delta-time 0: nothing sleeps
NextVoice ==
    \/ MainParallel
    \/ CtrlHandler
    \/ Control
    \/ Notes

SpecVoice == InitVoice /\ [][NextVoice]_vars

SpecVlq == InitVlq /\ [][ReadQuantity]_vars

\* a worker in noteOn's block for the drives, for a note-on of channel 1
\* with any note number; the channel has drive 0
InitFloppy ==
    \E n \in 0 .. (MAX_NOTES - 1) :
        /\ format = 0
        /\ division = 480
        /\ chunks = << << NoteOnEvt(0, 1, n, 100) >> >>
        /\ mainPc = "inTrack"
        /\ mainI = 0
        /\ pc = [t \in {0} |-> "onFloppy"]
        /\ it = [t \in {0} |-> 1]
        /\ elapsedMS = [t \in {0} |-> 0]
        /\ idx = [t \in {0} |-> 0]
        /\ ticksPerSecond = 960
        /\ usecPerQtrNote = MIDI_STANDARD_DEFAULT_USEC_PER_QTR_NOTE
        /\ ready = FALSE
        /\ availablePlayIndices = FullPool
        /\ activeNotes = [s \in Slots |-> NOT_ACTIVE]
        /\ prog = [c \in Channels |-> DEFAULT_INSTRUMENT]
        /\ channelHasBeenUsed = [c \in Channels |-> c = 1]
        /\ chanToDrive = [c \in Channels |-> IF c = 1 THEN 0 ELSE CHANNEL_NOT_ASSIGNED]
        /\ freeDrive = 1
        /\ mtxHeld = FALSE
        /\ isClosing = FALSE
        /\ now = 0
        /\ startTime = 0
        /\ teardowns = 0
        /\ floppyNote = 0
        /\ rawMIDI = << >>
        /\ pos = 0
        /\ vlq = 0
        /\ written = [value |-> 0, at |-> 0]
        /\ parsePc = "ok"
        /\ NoChunk
        /\ stream = NewStream
        /\ pitchBendFactor = [c \in Channels |-> 1000]
        /\ volume = [c \in Channels |-> DEFAULT_VOLUME]
        /\ expression = [c \in Channels |-> DEFAULT_EXPRESSION]

NextFloppy == \E t \in Tracks : NoteOnFloppy(t)
SpecFloppy == InitFloppy /\ [][NextFloppy]_vars

NextParse == parseMIDIFile \/ CtrlHandler
SpecParse == InitParse /\ [][NextParse]_vars
SpecRealtime == InitRealtime /\ [][NextParse]_vars

\* the tracks of the stepwise specification: track 0 changes the tempo,
\* track 1 computes deadlines and may change the tempo too
TempoTracks0 ==
    SeqsUpTo({ SetTempo(0, 300000), SetTempo(480, 300000), TextEvt(480),
               EndOfTrack(0) }, MaxEvents)

TempoTracks1 ==
    { << TextEvt(480) >>, << TextEvt(480), TextEvt(480) >>,
      << SetTempo(0, 300000), TextEvt(480) >> }

InitTempo ==
    \E tr0 \in TempoTracks0, tr1 \in TempoTracks1 :
        EnterPlayMusic(1, 480, << tr0, tr1 >>)

\* playTrack's waits and the tempo, the sections under mtx in steps
TimedInSteps ==
    \/ \E t \in Tracks : TopReady(t)
    \/ \E t \in Tracks : Notify(t)
    \/ \E t \in Tracks : Wake(t)
    \/ \E t \in Tracks : CalcLock(t)
    \/ \E t \in Tracks : CalcRead(t)
    \/ \E t \in Tracks : TempoLock(t)
    \/ \E t \in Tracks : TempoWrite(t)
    \/ \E t \in Tracks : TempoDecode(t)

NextTempo ==
    \/ MainParallel
    \/ CtrlHandler
    \/ Tick
    \/ Control
    \/ TimedInSteps
    \/ Ignored

SpecTempo == InitTempo /\ [][NextTempo]_vars

\* a step of track t's playTrack call
Thread(t) == (Control \/ Timed \/ Ignored) /\ << pc[t], it[t] >>' # << pc[t], it[t] >>

\* every thread that can run does run, and time passes; the signal and
\* spurious wake-ups are not guaranteed
Fairness ==
    /\ WF_vars(Setup \/ MainPred \/ MainBlock \/ MainLaunch \/ MainJoin \/ MainCleanUp)
    /\ WF_vars(Tick)
    /\ \A t \in {0, 1} : WF_vars(Thread(t))

SpecLive == InitLive /\ [][NextTime]_vars /\ Fairness

(***************************************************************************)
(* Properties of the voice pool.                                           *)
(***************************************************************************)
\* playMusic has filled the pool and has not torn the audio down
Playing == mainPc \notin {"parse", "setup", "cleanup", "finished", "exited"}

\* the handles some slot of activeNotes holds
Held == { h \in Handles : \E s \in Slots : activeNotes[s] = h }

\* the handles in availablePlayIndices
Free == { availablePlayIndices[i] : i \in 1 .. Len(availablePlayIndices) }

\* no track is inside noteOn or noteOff
NoNoteCallRunning ==
    \A t \in Tracks :
        pc[t] \notin {"onAssign", "onVelocity", "onAcquire", "onStart", "offRead",
                       "offClear", "offPush"}

\* C1: while the pool is in use no handle is held by two slots, no handle is
\* both free and held, and no handle is twice in the free queue, whatever the
\* interleaving of concurrent noteOn and noteOff calls.
C1_NoDoubleAssignment ==
    Playing =>
        /\ \A s1, s2 \in Slots :
               (s1 # s2 /\ activeNotes[s1] \in Handles) => activeNotes[s1] # activeNotes[s2]
        /\ Held \cap Free = {}
        /\ \A i, j \in 1 .. Len(availablePlayIndices) :
               i # j => availablePlayIndices[i] # availablePlayIndices[j]

\* two tracks ran noteOff on the same slot and both pushed the handle they read
C1_HandleFreedTwice ==
    /\ Playing
    /\ \E i, j \in 1 .. Len(availablePlayIndices) :
           i # j /\ availablePlayIndices[i] = availablePlayIndices[j]

\* C2: between initialisation and teardown, whenever no noteOn or noteOff call
\* is under way, the free handles and the held handles are MAX_SIMUL together.
C2_NoHandleLeaked ==
    (Playing /\ NoNoteCallRunning) =>
        Len(availablePlayIndices) + Cardinality(Held) = MAX_SIMUL

\* two tracks ran noteOn on the same inactive slot: both took a handle, the
\* slot keeps one of them
C2_HandleLost ==
    /\ Playing
    /\ NoNoteCallRunning
    /\ Len(availablePlayIndices) + Cardinality(Held) < MAX_SIMUL
    /\ \A i, j \in 1 .. Len(availablePlayIndices) :
           i # j => availablePlayIndices[i] # availablePlayIndices[j]

(***************************************************************************)
(* Properties of the start barrier (format 1).                             *)
(***************************************************************************)
Running == mainPc \notin {"parse", "setup", "exited"}

\* track 0's worker has evaluated "deltaTime != 0" true for some event
Track0Reached ==
    \E k \in 1 .. Len(Track(0)) :
        /\ Track(0)[k].deltaTime # 0
        /\ k < it[0] \/ (k = it[0] /\ pc[0] \notin {"idle", "top", "exited"})

\* track 0's worker has finished the switch for some event with delta-time # 0
Track0DispatchedNonZero ==
    \E k \in 1 .. Len(Track(0)) : Track(0)[k].deltaTime # 0 /\ k < it[0]

\* track 0's worker has run the end-of-track case of the switch
EndOfTrackDispatched0 ==
    \E k \in 1 .. Len(Track(0)) :
        /\ IsEndOfTrack(Track(0)[k])
        /\ k < it[0] \/ (k = it[0] /\ pc[0] = "eotNotify")

OthersLaunched == \E t \in Tracks \ {0} : pc[t] \notin {"idle", "exited"}

OtherDispatched == \E t \in Tracks \ {0} : it[t] > 1

\* C3, as the specification words it: no other worker dispatches an event
\* until track 0 has dispatched an event with non-zero delta-time or has
\* reached its end.
C3_AfterTrack0Dispatched ==
    (format = 1 /\ Running) =>
        (OtherDispatched =>
            Track0DispatchedNonZero \/ EndOfTrackDispatched0 \/ pc[0] = "done")

\* C3: in a format 1 file no worker other than track 0's is launched, so none
\* dispatches an event, until track 0's worker has reached an event with
\* non-zero delta-time (before sleeping for it) or has dispatched an
\* end-of-track event.
C3_StartBarrier ==
    (format = 1 /\ Running) =>
        (OthersLaunched => Track0Reached \/ EndOfTrackDispatched0)

\* another worker has dispatched an event while track 0's worker sleeps for
\* its first event with non-zero delta-time
C3_DispatchedWhileTrack0Sleeps ==
    /\ format = 1
    /\ OtherDispatched
    /\ pc[0] = "sleep"
    /\ ~Track0DispatchedNonZero
    /\ ~EndOfTrackDispatched0

\* every other track's thread has been created
AllLaunched == \A t \in Tracks \ {0} : pc[t] # "idle"

\* C4: once track 0's worker has reached an event with non-zero delta-time or
\* the end of its track, every other worker is eventually launched (unless the
\* playback is cancelled).
C4_EventuallyLaunched ==
    (format = 1 /\ (Track0Reached \/ EndOfTrackDispatched0 \/ pc[0] = "done"))
        ~> (AllLaunched \/ isClosing)

\* event k of track 0 is at its head: it and all before it have delta-time 0,
\* none before it is an end-of-track
IsHead(k) ==
    /\ \A j \in 1 .. k : Track(0)[j].deltaTime = 0
    /\ \A j \in 1 .. (k - 1) : ~IsEndOfTrack(Track(0)[j])

HeadDispatched0 ==
    \A k \in 1 .. Len(Track(0)) :
        IsHead(k) => (k < it[0] \/ (k = it[0] /\ pc[0] = "eotNotify"))

\* big-endian value of 3 bytes
BigEndian3(bs) == (bs[1] * 65536) + (bs[2] * 256) + bs[3]

\* the tempo of the last Set Tempo track 0 has dispatched
LastTempo0 ==
    LET ks == { k \in 1 .. Len(Track(0)) : k < it[0] /\ IsSetTempo(Track(0)[k]) }
    IN  IF ks = {}
        THEN MIDI_STANDARD_DEFAULT_USEC_PER_QTR_NOTE
        ELSE BigEndian3(Track(0)[CHOOSE k \in ks : \A j \in ks : j <= k].bytes)

\* C5: in a format 1 file every delta-time 0 event at the head of track 0 has
\* been dispatched before any other worker is launched, and when the first of
\* them is launched ticksPerSecond is the rate of the last tempo dispatched.
C5_HeadBeforeOthers ==
    (format = 1 /\ Running) =>
        /\ OthersLaunched => HeadDispatched0
        /\ (mainPc = "launch" /\ mainI = 1) =>
               /\ HeadDispatched0
               /\ ticksPerSecond = (1000000 * division) \div LastTempo0

\* track 0 starts with a Set Tempo at tick 0 and another worker has computed
\* its first deadline, 480 ticks, at the new rate
C5_FirstDeadlineAtHeadTempo ==
    /\ format = 1
    /\ Len(Track(0)) > 0
    /\ IsSetTempo(Track(0)[1])
    /\ Track(0)[1].deltaTime = 0
    /\ \E t \in Tracks \ {0} :
           /\ pc[t] = "sleep"
           /\ it[t] = 1
           /\ Track(t)[1].deltaTime = 480
           /\ elapsedMS[t] = 300

(***************************************************************************)
(* Properties of the deadlines.                                            *)
(***************************************************************************)
RECURSIVE CumTicks(_, _)
\* the cumulative tick position of event k of track t
CumTicks(t, k) == IF k = 0 THEN 0 ELSE CumTicks(t, k - 1) + Track(t)[k].deltaTime

\* the deadline of track t's current event has been computed
Scheduled(t) == pc[t] \in {"sleep", "disp"}

\* C6: in a format 1 file two events of different tracks at the same cumulative
\* tick position have the same absolute deadline.
C6_Lockstep ==
    format = 1 =>
        \A t1, t2 \in Tracks :
            ( /\ t1 # t2
              /\ Scheduled(t1)
              /\ Scheduled(t2)
              /\ CumTicks(t1, it[t1]) = CumTicks(t2, it[t2]) )
            => elapsedMS[t1] = elapsedMS[t2]

\* the tempo moved inside track 1's pending gap: track 1's event at tick 960
\* is due at 1000 ms, track 0's event at tick 960 at 800 ms
C6_TempoInsideGap ==
    /\ format = 1
    /\ pc[0] = "sleep"
    /\ pc[1] = "sleep"
    /\ CumTicks(0, it[0]) = 960
    /\ CumTicks(1, it[1]) = 960
    /\ it[1] = 1
    /\ elapsedMS[0] = 800
    /\ elapsedMS[1] = 1000

\* the launcher waits on the condition variable although ready is set and
\* track 0's worker is past its notify_one
C4_LostWakeup ==
    /\ format = 1
    /\ mainPc = "blocked"
    /\ ready
    /\ pc[0] \notin {"notify", "eotNotify"}
    /\ Len(Track(0)) > 0

\* track t's worker finishes the switch for a Set Tempo event
TempoStep(t) ==
    /\ pc[t] = "disp"
    /\ IsSetTempo(Ev(t))
    /\ it'[t] = it[t] + 1

\* track t's worker computes the deadline of its current event
DeadlineStep(t) == pc[t] \in {"top", "calc"} /\ pc'[t] = "sleep"

\* C7: with a ticks-per-quarter-note division d, dispatching a Set Tempo with
\* the big-endian value u makes ticksPerSecond 1000000 * d / u; nothing else
\* changes the rate during playback, and every later deadline is computed
\* from the rate of the last tempo applied.
C7_TempoPropagation ==
    [][ /\ \A t \in Tracks :
               (TempoStep(t) /\ TicksPerQtrNoteMode(division)) =>
                   /\ ticksPerSecond' = (1000000 * division) \div BigEndian3(Ev(t).bytes)
                   /\ usecPerQtrNote' = BigEndian3(Ev(t).bytes)
        /\ (Running /\ ticksPerSecond' # ticksPerSecond) => \E t \in Tracks : TempoStep(t)
        /\ \A t \in Tracks :
               DeadlineStep(t) =>
                   elapsedMS'[t] - elapsedMS[t] =
                       (Ev(t).deltaTime * 1000) \div ((1000000 * division) \div usecPerQtrNote)
      ]_vars

\* a Set Tempo of 300000 at division 480 was dispatched by a track, whose next
\* deadline, 480 ticks later, was computed at 1600 ticks per second
C7_NewRateUsed ==
    \E t \in Tracks :
        /\ pc[t] = "sleep"
        /\ it[t] = 2
        /\ IsSetTempo(Track(t)[1])
        /\ Track(t)[1].deltaTime = 480
        /\ Track(t)[2].deltaTime = 480
        /\ division = 480
        /\ usecPerQtrNote = 300000
        /\ ticksPerSecond = 1600
        /\ elapsedMS[t] = 800

\* C8: for an event with delta-time > 0 the worker adds delta * 1000 /
\* ticksPerSecond, at the rate read then, to elapsedMS (300 ms for 480 ticks
\* at 1600 ticks per second); elapsedMS changes in no other way and never
\* decreases; no event enters the switch before startTime + elapsedMS.
C8_AbsoluteDeadlines ==
    [][ \A t \in Tracks :
            /\ elapsedMS'[t] >= elapsedMS[t]
            /\ elapsedMS'[t] # elapsedMS[t] => (DeadlineStep(t) /\ Ev(t).deltaTime > 0)
            /\ DeadlineStep(t) =>
                   /\ elapsedMS'[t] =
                          elapsedMS[t] + (Ev(t).deltaTime * 1000) \div ticksPerSecond
                   /\ (Ev(t).deltaTime = 480 /\ ticksPerSecond = 1600) =>
                          elapsedMS'[t] = elapsedMS[t] + 300
            /\ (pc[t] # "disp" /\ pc'[t] = "disp") => now >= startTime + elapsedMS[t]
      ]_vars

\* a worker woke late for an event due at 500 ms and the next deadline, 480
\* ticks at 1600 ticks per second, is still 500 + 300 ms
C8_LateWakeKeepsSchedule ==
    \E t \in Tracks :
        /\ pc[t] = "sleep"
        /\ it[t] > 1
        /\ Ev(t).deltaTime = 480
        /\ ticksPerSecond = 1600
        /\ elapsedMS[t] = 800
        /\ now > startTime + 500
        /\ now < startTime + 800

(***************************************************************************)
(* The end-to-end file: division 480, one track, Set Tempo 500000 at 0,    *)
(* Note On after 480 ticks, Note Off after 480 more, End of Track.         *)
(***************************************************************************)
EndToEndFile ==
    /\ format = 0
    /\ division = 480
    /\ chunks = << EndToEndTrack(500000, 100) >>
    /\ Running

InNoteOn ==
    it[0] = 2 /\ pc[0] \in {"disp", "onAssign", "onVelocity", "onAcquire", "onStart"}
InNoteOff == it[0] = 3 /\ pc[0] \in {"disp", "offClear", "offPush"}

\* C9, as the specification words it: 2.0 ticks per ms, the note-on at 0 ms,
\* the note-off at 240 ms, the end of the track at 240 ms.
C9_EndToEndAsWritten ==
    EndToEndFile =>
        /\ it[0] >= 2 => ticksPerSecond = 2000
        /\ InNoteOn => elapsedMS[0] = 0
        /\ InNoteOff => elapsedMS[0] = 240
        /\ pc[0] = "done" => elapsedMS[0] = 240

\* C9: on the end-to-end file the rate is 960 ticks per second (0.96 ticks
\* per ms), the note-on is dispatched at 500 ms or later and is due at 500 ms,
\* the note-off at 1000 ms, and the track ends at 1000 ms.
C9_EndToEnd ==
    EndToEndFile =>
        /\ it[0] >= 2 => ticksPerSecond = 960
        /\ InNoteOn => (elapsedMS[0] = 500 /\ now >= startTime + 500)
        /\ InNoteOff => (elapsedMS[0] = 1000 /\ now >= startTime + 1000)
        /\ pc[0] = "done" => (elapsedMS[0] = 1000 /\ now >= startTime + 1000)

\* the end-to-end file was played to its end
C9_Played ==
    /\ EndToEndFile
    /\ mainPc = "finished"
    /\ pc[0] = "done"
    /\ it[0] = 5
    /\ elapsedMS[0] = 1000
    /\ Len(availablePlayIndices) = MAX_SIMUL

(***************************************************************************)
(* The decoder.                                                            *)
(***************************************************************************)
\* C10: for a quantity v below 2^28 written in the format's encoding at the
\* cursor, readVariableLengthQuantity returns v and moves the cursor by the
\* length of the encoding, 1 to 4 bytes.
C10_QuantityRoundTrip ==
    parsePc = "read" =>
        /\ vlq = written.value
        /\ pos = written.at + Len(EncodeQuantity(written.value))
        /\ Len(EncodeQuantity(written.value)) \in 1 .. 4

\* the largest quantity, 4 bytes, was read after a byte that is skipped and
\* before bytes with the high bit set
C10_LargestRead ==
    /\ parsePc = "read"
    /\ written.value = 268435455
    /\ written.at = 1
    /\ vlq = 268435455
    /\ pos = 5
    /\ Len(rawMIDI) = 7

(***************************************************************************)
(* C11: reads fail closed on truncated input.  Whenever a read or a        *)
(* declared header or chunk length goes past the end of rawMIDI, the parse *)
(* does not return true and is not terminated by a fault either: it        *)
(* returns false.                                                          *)
(***************************************************************************)
C11_FailClosed == truncated => parsePc \notin {"ok", "crashed"}

\* a file whose only chunk has lost the last byte of its note-on is parsed
\* with success: the missing velocity is read as the string's terminator
C11_TruncatedAccepted ==
    /\ parsePc = "ok"
    /\ truncated
    /\ written.cut = 1
    /\ written.tracks = << [syms |-> << NoteOnSym >>, off |-> 0] >>
    /\ chunks = << << MidiEvt(0, 144, 60, 0) >> >>

(***************************************************************************)
(* What a reader of the file format decodes from the events of one chunk:  *)
(* a message written without status byte has the status of the most recent *)
(* message with one in the same chunk (st at the start of the chunk).      *)
(***************************************************************************)
StatusAfter(sym, st) ==
    IF sym.evt.type # "MIDI" \/ sym.running THEN st ELSE sym.evt.status

RECURSIVE Resolve(_, _)
Resolve(syms, st) ==
    IF syms = << >>
    THEN << >>
    ELSE LET e == IF Head(syms).running
                  THEN [Head(syms).evt EXCEPT !.status = st]
                  ELSE Head(syms).evt
         IN  << e >> \o Resolve(Tail(syms), StatusAfter(Head(syms), st))

\* every message without status byte follows, in its chunk, a channel
\* message and has as many data bytes as that message's status takes
RECURSIVE Consistent(_, _)
Consistent(syms, st) ==
    \/ syms = << >>
    \/ /\ Head(syms).running =>
              /\ st \in 128 .. 239
              /\ Len(Head(syms).bytes) - 1 = (IF st \in 192 .. 223 THEN 1 ELSE 2)
       /\ Consistent(Tail(syms), StatusAfter(Head(syms), st))

\* the file is written as described, whole, and every chunk declares the
\* length of its body
WellFormedFile ==
    /\ written.header.tag = MThd
    /\ written.cut = 0
    /\ written.tail = << >>
    /\ \A i \in 1 .. Len(written.tracks) :
        /\ written.tracks[i].off = 0
        /\ Consistent(written.tracks[i].syms, 0)

C13_DataByteCount ==
    [][ (/\ parsePc = "events"
         /\ Len(mtrkEvents') = Len(mtrkEvents) + 1
         /\ ~truncated'
         /\ mtrkEvents'[Len(mtrkEvents')].type = "MIDI"
         /\ mtrkEvents'[Len(mtrkEvents')].status \in 128 .. 239)
        =>
        LET e     == mtrkEvents'[Len(mtrkEvents')]
            q     == readVariableLengthQuantity(rawMIDI, pos).pos
            data  == IF RawAt(rawMIDI, q) >= 128 THEN q + 1 ELSE q
            count == IF e.status \div 16 \in {12, 13} THEN 1 ELSE 2
        IN  /\ pos' = data + count
            /\ e.byte1 = RawAt(rawMIDI, data)
            /\ e.byte2 = (IF count = 2 THEN RawAt(rawMIDI, data + 1) ELSE 0) ]_vars

\* a program change and a second one under running status, one data byte
\* each, end exactly at the end of the chunk
C13_OneDataByteTwice ==
    /\ parsePc = "ok"
    /\ ~truncated
    /\ written.tracks = << [syms |-> << ProgramSym, RunningOneSym >>, off |-> 0] >>
    /\ chunks = << << MidiEvt(0, 192, 5, 0), MidiEvt(0, 192, 7, 0) >> >>
    /\ pos = chunkEnd

(***************************************************************************)
(* C14: chunk length is exact.  When a track chunk has been accepted (it   *)
(* is in chunks and the parser is back between chunks or has returned      *)
(* true), the decoding of its events ended exactly at the declared end:    *)
(* the cursor is at chunkEnd.                                              *)
(***************************************************************************)
C14_ChunkLengthExact ==
    (parsePc \in {"chunks", "ok"} /\ Len(chunks) > 0) => pos = chunkEnd

\* a chunk that declares 3 bytes and holds a 4-byte note-on is accepted,
\* the cursor one byte after the declared end
C14_OverReadAccepted ==
    /\ parsePc = "ok"
    /\ written.cut = 0
    /\ written.tracks = << [syms |-> << NoteOnSym >>, off |-> -1] >>
    /\ chunks = << << MidiEvt(0, 144, 60, 100) >> >>
    /\ pos = chunkEnd + 1
    /\ ~truncated

(***************************************************************************)
(* C15: header skip-forward.  After parseHeader has succeeded on a header  *)
(* that is wholly in the buffer, and before any chunk is begun, the cursor *)
(* is at 4 + 4 + the declared length whatever bytes follow the first 6     *)
(* body bytes, and format, ntrks and division are what those 6 bytes say.  *)
(***************************************************************************)
C15_HeaderSkipForward ==
    (/\ parsePc = "chunks"
     /\ chunkEnd = 0
     /\ Len(rawMIDI) >= 14)
    =>
    /\ pos = 4 + 4 + written.header.length
    /\ hdrLength = written.header.length
    /\ format = 1
    /\ ntrks = written.header.ntrks
    /\ division = 480

\* a header of declared length 8 leaves the cursor at 16, its two extra
\* bytes skipped
C15_LengthEight ==
    /\ parsePc = "chunks"
    /\ chunkEnd = 0
    /\ written.header.extra = << 77, 84 >>
    /\ hdrLength = 8
    /\ pos = 16
    /\ Len(rawMIDI) > 16

(***************************************************************************)
(* C16: no partial timeline on failure.  When parseMIDIFile has returned   *)
(* false, the MIDI object the caller holds has no track chunk.             *)
(***************************************************************************)
C16_NoPartialTimeline == parsePc = "failed" => chunks = << >>

\* a good chunk followed by a chunk with a wrong tag: false is returned and
\* the good chunk is still in chunks
C16_EarlierChunkLeft ==
    /\ parsePc = "failed"
    /\ ~isClosing
    /\ written.tail = BadChunk
    /\ written.tracks = << [syms |-> << NoteOnSym >>, off |-> 0] >>
    /\ chunks = << << MidiEvt(0, 144, 60, 100) >> >>

(***************************************************************************)
(* C17: the declared track count is not enforced.  A well-formed file with *)
(* k track chunks, whatever number of tracks its header declares, is not   *)
(* rejected (unless the user interrupts the parse), and once parsed its    *)
(* timeline has exactly the k chunks, in file order.                       *)
(***************************************************************************)
C17_TrackCountNotEnforced ==
    WellFormedFile =>
        /\ parsePc # "crashed"
        /\ parsePc = "failed" => isClosing
        /\ parsePc = "ok" =>
               /\ Len(chunks) = Len(written.tracks)
               /\ \A i \in 1 .. Len(chunks) :
                      chunks[i] = Resolve(written.tracks[i].syms, 0)

\* a header that declares 3 tracks, 2 chunks in the file: both are in the
\* timeline, in file order
C17_ThreeDeclaredTwoFound ==
    /\ parsePc = "ok"
    /\ WellFormedFile
    /\ ntrks = 3
    /\ Len(written.tracks) = 2
    /\ chunks = << << MidiEvt(0, 192, 5, 0) >>, << MidiEvt(0, 144, 60, 100) >> >>

(***************************************************************************)
(* The voice pool at capacity.                                             *)
(***************************************************************************)
\* the slots that hold a voice once the first k events of CapacityTrack are
\* dispatched, were the pool one of MAX_SIMUL handles
CapacityActive(k) ==
    IF k <= MAX_SIMUL THEN { << c, 69 >> : c \in 1 .. k }
    ELSE IF k = MAX_SIMUL + 1 THEN { << c, 69 >> : c \in 1 .. MAX_SIMUL }
    ELSE IF k = MAX_SIMUL + 2 THEN { << c, 69 >> : c \in 2 .. MAX_SIMUL }
    ELSE { << c, 69 >> : c \in (2 .. MAX_SIMUL) \cup {MAX_SIMUL + 2} }

ActiveSlots == { s \in Slots : activeNotes[s] # NOT_ACTIVE }

(***************************************************************************)
(* C18: voice lifecycle at capacity.  On CapacityTrack, after each event   *)
(* the slots that hold a handle are: one more per note-on for the first    *)
(* MAX_SIMUL note-ons, none for the next one, one less after the note-off, *)
(* one more for exactly one further note-on and none for the one after     *)
(* it; the handles held are distinct handles of the pool and the free set  *)
(* has the others.                                                         *)
(***************************************************************************)
C18_VoiceLifecycle ==
    (/\ chunks = << CapacityTrack >>
     /\ Playing
     /\ pc[0] \notin {"onStart", "offPush", "exited"})
    =>
    /\ ActiveSlots = CapacityActive(it[0] - 1)
    /\ \A s \in ActiveSlots : activeNotes[s] \in Handles
    /\ \A s1, s2 \in ActiveSlots : activeNotes[s1] = activeNotes[s2] => s1 = s2
    /\ Len(availablePlayIndices) = MAX_SIMUL - Cardinality(ActiveSlots)
    /\ \A s \in ActiveSlots : activeNotes[s] \notin Free

\* the whole track is dispatched: the note-on after the note-off has the
\* handle that was released, the last note-on has none
C18_RefilledOnce ==
    /\ chunks = << CapacityTrack >>
    /\ Playing
    /\ it[0] = Len(CapacityTrack) + 1
    /\ activeNotes[<< MAX_SIMUL + 2, 69 >>] \in Handles
    /\ activeNotes[<< MAX_SIMUL + 1, 69 >>] = NOT_ACTIVE
    /\ activeNotes[<< MAX_SIMUL + 3, 69 >>] = NOT_ACTIVE
    /\ availablePlayIndices = << >>

(***************************************************************************)
(* C19: voice exhaustion is non-fatal and non-blocking.  The step of a     *)
(* note-on that finds availablePlayIndices empty leaves the free set, the  *)
(* slot (still NOT_ACTIVE), every activeNotes slot and every channel's     *)
(* program, volume, expression, pitch bend and drive unchanged, tells the  *)
(* Stream nothing, leaves mtx unlocked, and the worker is at its next      *)
(* event.                                                                  *)
(***************************************************************************)
C19_ExhaustionNonFatal ==
    [][ \A t \in Tracks :
          (/\ pc[t] = "onAcquire"
           /\ pc'[t] # "onAcquire"
           /\ availablePlayIndices = << >>)
          =>
          /\ availablePlayIndices' = << >>
          /\ activeNotes' = activeNotes
          /\ activeNotes'[NoteSlot(Ev(t))] = NOT_ACTIVE
          /\ driveVars' = driveVars
          /\ stream' = stream
          /\ ~mtxHeld'
          /\ it'[t] = it[t] + 1
          /\ pc'[t] = "top" ]_vars

\* on CapacityTrack the note-on after the pool is used up is over: its slot
\* has no handle, every handle still sounds the note it was started for
C19_NoteNotSounded ==
    /\ chunks = << CapacityTrack >>
    /\ Playing
    /\ it[0] = MAX_SIMUL + 2
    /\ pc[0] = "top"
    /\ activeNotes[<< MAX_SIMUL + 1, 69 >>] = NOT_ACTIVE
    /\ availablePlayIndices = << >>
    /\ channelHasBeenUsed[MAX_SIMUL + 1]
    /\ \A h \in Handles :
        /\ stream[h].decayFactor = "growth"
        /\ stream[h].note = 69
        /\ stream[h].noteVel = 100

(***************************************************************************)
(* C20: ChannelState is reset per playback session.  While playback has    *)
(* started and no worker has dispatched an event yet, every channel has    *)
(* the default program, volume 100, expression 127, pitch bend factor 1.0, *)
(* no active voice and no drive, whatever the file contains.               *)
(***************************************************************************)
NoEventDispatched ==
    /\ Playing
    /\ \A t \in Tracks : it[t] = 1 /\ pc[t] \in {"idle", "top", "calc", "sleep"}

C20_ChannelStateReset ==
    NoEventDispatched =>
        \A c \in Channels :
            /\ prog[c] = DEFAULT_INSTRUMENT
            /\ volume[c] = DEFAULT_VOLUME
            /\ expression[c] = DEFAULT_EXPRESSION
            /\ pitchBendFactor[c] = 1000
            /\ \A n \in ModelNotes : activeNotes[<< c, n >>] = NOT_ACTIVE
            /\ chanToDrive[c] = CHANNEL_NOT_ASSIGNED

\* the worker of a file with a program change starts with the program
\* that logging the file left in the channel
C20_ProgramLeftByLogging ==
    /\ NoEventDispatched
    /\ chunks = << ProgramTrack >>
    /\ pc[0] = "top"
    /\ prog[1] = 5
    /\ \A c \in Channels \ {1} : prog[c] = DEFAULT_INSTRUMENT

(***************************************************************************)
(* C21: ChannelState mutual exclusion.  No two track workers are at the    *)
(* same time inside a read-modify-write of the same channel's record:      *)
(* between the read of channelHasBeenUsed or of an activeNotes slot and    *)
(* the write that follows it in noteOn or noteOff.                         *)
(***************************************************************************)
\* track t has read a member of its event's channel and has not yet
\* written it: channelHasBeenUsed in noteOn, the slot of activeNotes in
\* noteOn (found NOT_ACTIVE) and in noteOff (found active)
InChannelUpdate(t) == pc[t] \in {"onAssign", "onAcquire", "offClear"}

C21_ChannelMutualExclusion ==
    \A t1, t2 \in Tracks :
        (t1 # t2 /\ InChannelUpdate(t1) /\ InChannelUpdate(t2))
            => NoteChan(Ev(t1)) # NoteChan(Ev(t2))

\* two workers are in noteOff for the same note of the same channel, both
\* having read the same play index from the slot
C21_BothInsideNoteOff ==
    /\ NumTracks = 3
    /\ pc[1] = "offClear"
    /\ pc[2] = "offClear"
    /\ NoteSlot(Ev(1)) = NoteSlot(Ev(2))
    /\ idx[1] = idx[2]

(***************************************************************************)
(* C22: TempoState is updated atomically.  The writes of usecPerQtrNote    *)
(* and ticksPerSecond by a Set Tempo dispatch and the read of              *)
(* ticksPerSecond in a deadline computation are all made by the one thread *)
(* that holds mtx, so a deadline is never computed from a ticksPerSecond   *)
(* older than usecPerQtrNote.                                              *)
(***************************************************************************)
\* the threads inside one of the two sections
InTempoSection == { t \in Tracks : pc[t] \in {"tempoUsec", "tempoDecode", "calcRead"} }

C22_TempoAtomic ==
    /\ InTempoSection # {} => mtxHeld
    /\ Cardinality(InTempoSection) <= 1
    /\ \A t \in Tracks :
           pc[t] = "calcRead" =>
               ticksPerSecond = decodeDivision(division, usecPerQtrNote)

\* track 0 has written the new usecPerQtrNote and not yet the rate, while
\* track 1 is about to compute a deadline and waits for mtx
C22_WaitsForNewRate ==
    /\ pc[0] = "tempoDecode"
    /\ usecPerQtrNote = 300000
    /\ ticksPerSecond = decodeDivision(division, MIDI_STANDARD_DEFAULT_USEC_PER_QTR_NOTE)
    /\ pc[1] = "top"
    /\ AtEvent(1)
    /\ NonZeroDelta(1)
    /\ mtxHeld

(***************************************************************************)
(* C23: teardown runs exactly once.  Whether or not isClosing is set and   *)
(* however many workers read it as set, cleanUpAudio is entered by at most *)
(* one thread, and by exactly one when the session has ended (playMusic    *)
(* returned or the process exited).                                        *)
(***************************************************************************)
\* the threads that are at the call of cleanUpAudio
AtCleanUp ==
    Cardinality({ t \in Tracks : pc[t] = "cleanup" })
        + (IF mainPc = "cleanup" THEN 1 ELSE 0)

C23_TeardownOnce ==
    /\ teardowns + AtCleanUp <= 1
    /\ mainPc \in {"finished", "exited"} => teardowns = 1

\* one worker has run cleanUpAudio and still holds mtx, a second worker has
\* read isClosing as set and waits at mtx.lock()
C23_SecondObserverWaits ==
    \E t1, t2 \in Tracks :
        /\ t1 # t2
        /\ pc[t1] = "exit"
        /\ pc[t2] = "closing"
        /\ teardowns = 1
        /\ mtxHeld

(***************************************************************************)
(* C24: cooperative cancellation is observed between events.  An event     *)
(* enters playTrack's switch only in a step that has just read isClosing   *)
(* as false, after the wake-up or, with delta-time 0, straight from the    *)
(* top of the loop; a worker that has read it as true never advances its   *)
(* iterator again and only goes on to the clean-up and the exit.           *)
(***************************************************************************)
\* the positions of a worker that has read isClosing as true
Cancelling == {"closing", "cleanup", "exit", "exited"}

C24_CancellationObserved ==
    [][\A t \in Tracks :
          /\ (pc[t] # "disp" /\ pc'[t] = "disp")
                 => (pc[t] \in {"top", "sleep"} /\ ~isClosing)
          /\ (pc[t] \in {"top", "sleep"} /\ pc'[t] \notin {"top", "sleep"} /\ isClosing)
                 => pc'[t] \in Cancelling \cup {"done", "notify", "calc", "calcRead"}
          /\ pc[t] \in Cancelling
                 => (it'[t] = it[t] /\ pc'[t] \in Cancelling)]_vars

\* a worker has dispatched an event and read the flag as set before its
\* next event, one with delta-time 0
C24_SeenBeforeZeroDelta ==
    \E t \in Tracks :
        /\ pc[t] = "closing"
        /\ it[t] > 1
        /\ Ev(t).deltaTime = 0

(***************************************************************************)
(* C25: normal termination order.  playMusic reaches its cleanUpAudio only *)
(* when every track's worker has gone through all its events and has       *)
(* terminated, and when playMusic has returned every one of the MAX_SIMUL  *)
(* play indices has been stopped, the free ones and the ones a note still  *)
(* holds.                                                                  *)
(***************************************************************************)
C25_NormalTermination ==
    /\ mainPc \in {"cleanup", "finished"}
           => \A t \in Tracks : pc[t] = "done" /\ ~AtEvent(t)
    /\ mainPc = "finished"
           => \A h \in Handles : stream[h].decayFactor = "shrink"

\* playMusic has returned without cancellation; one play index is still
\* held by a note that got no note-off, the other one was never taken
C25_HeldAndFreeStopped ==
    /\ mainPc = "finished"
    /\ ~isClosing
    /\ teardowns = 1
    /\ \E h \in Handles : h \in Held /\ stream[h].decayFactor = "shrink"
    /\ \E h \in Handles : h \in Free /\ h \notin Held
                            /\ stream[h].decayFactor = "shrink"

(***************************************************************************)
(* C26: within one track the events are dispatched in parse order.  The    *)
(* iterator of a track moves only by one event and only in the step that   *)
(* ends the dispatch of the event it stands on; the deadline is computed,  *)
(* and the switch entered, only for the event the iterator stands on,      *)
(* while the worker is not inside a dispatch.                              *)
(***************************************************************************)
\* the positions of a worker that is not inside the switch
BetweenEvents ==
    {"idle", "top", "notify", "calc", "calcRead", "sleep", "closing", "cleanup",
     "exit", "done", "exited"}

C26_InOrderDispatch ==
    [][\A t \in Tracks :
          /\ it'[t] # it[t]
                 => /\ it'[t] = it[t] + 1
                    /\ AtEvent(t)
                    /\ pc[t] \notin BetweenEvents
                    /\ pc'[t] = "top"
          /\ elapsedMS'[t] # elapsedMS[t]
                 => /\ pc[t] \in {"top", "calc", "calcRead"}
                    /\ it'[t] = it[t]
                    /\ elapsedMS'[t] = NextDeadline(t)
          /\ (pc[t] \in BetweenEvents /\ pc'[t] \notin BetweenEvents)
                 => (pc'[t] = "disp" /\ it'[t] = it[t])]_vars

\* the second of two tracks is dispatching its second event
C26_SecondEventOfSecondTrack ==
    /\ chunks = TwoTracks
    /\ pc[1] = "disp"
    /\ it[1] = 2

(***************************************************************************)
(* C27: a note-on with velocity <= 1, or on a channel whose program is     *)
(* unvoiceable, has exactly the effect of a note-off for the same channel  *)
(* and note.  Every step of such a noteOn call leaves the drive assignment *)
(* and the other channel settings as a noteOff call does, takes no play    *)
(* index, and an active voice of the note is stopped, its slot cleared and *)
(* its play index pushed back.                                             *)
(***************************************************************************)
\* track t takes a step of a noteOn call that noteOn treats as a note-off
SilentNoteOnStep(t) ==
    /\ pc[t] \in {"disp", "onAssign", "onVelocity", "offRead", "offClear", "offPush"}
    /\ AtEvent(t)
    /\ IsNoteOn(Ev(t))
    /\ Ev(t).byte2 <= 1 \/ invalidProg(prog[NoteChan(Ev(t))])
    /\ pc'[t] \notin {pc[t], "exited"}

C27_NoteOnAsNoteOff ==
    [][\A t \in Tracks :
          SilentNoteOnStep(t) =>
              /\ driveVars' = driveVars
              /\ Len(availablePlayIndices') >= Len(availablePlayIndices)
              /\ pc'[t] \notin {"onAcquire", "onStart"}
              /\ pc[t] = "offClear" =>
                     /\ stream'[idx[t]].decayFactor = "shrink"
                     /\ activeNotes'[NoteSlot(Ev(t))] = NOT_ACTIVE
              /\ pc[t] = "offPush" =>
                     availablePlayIndices' = Append(availablePlayIndices, idx[t])]_vars

\* the first event of a track is a note-on of velocity 1 on a channel that
\* was not used before: the call has taken drive 0 for the channel
C27_DriveTakenBySilentNoteOn ==
    /\ chunks = << DriveTrack >>
    /\ it[0] = 1
    /\ pc[0] = "onVelocity"
    /\ Ev(0).byte2 = 1
    /\ channelHasBeenUsed[1]
    /\ chanToDrive[1] = 0
    /\ freeDrive = 1

(***************************************************************************)
(* C28: a channel is assigned at most one drive in a playback session.     *)
(* Once chanToDrive of a channel is set it never changes, and freeDrive    *)
(* counts at most one drive per assigned channel, however the workers that *)
(* dispatch note-ons for the same channel interleave.                      *)
(***************************************************************************)
\* the channels that have a drive
Assigned == { c \in Channels : chanToDrive[c] # CHANNEL_NOT_ASSIGNED }

C28_AssignedOnce ==
    [][/\ \A c \in Assigned : chanToDrive'[c] = chanToDrive[c]
       /\ freeDrive' <= Cardinality(Assigned')]_vars

\* two workers passed the test of channelHasBeenUsed for channel 1 before
\* either set it: the channel got drive 0, then drive 1
C28_SecondDriveForChannel ==
    /\ Assigned = {1}
    /\ chanToDrive[1] = 1
    /\ freeDrive = 2

(***************************************************************************)
(* C29: drive assignments are injective and bounded.  In every reachable   *)
(* state two different channels never have the same drive, every assigned  *)
(* drive is below MAX_DRIVES, at most MAX_DRIVES channels are assigned and *)
(* channel 10 is never assigned.                                           *)
(***************************************************************************)
C29_InjectiveBounded ==
    /\ \A c1, c2 \in Assigned : c1 # c2 => chanToDrive[c1] # chanToDrive[c2]
    /\ \A c \in Assigned : chanToDrive[c] < MAX_DRIVES
    /\ Cardinality(Assigned) <= MAX_DRIVES
    /\ EFFECTS_CHANNEL \notin Assigned

\* every drive is taken, and a channel other than 10 had its first note-on
\* after that: it is marked as used and has no drive
C29_ChannelWithoutDrive ==
    /\ freeDrive = MAX_DRIVES
    /\ Cardinality(Assigned) = MAX_DRIVES
    /\ \E c \in Channels \ {EFFECTS_CHANNEL} :
           channelHasBeenUsed[c] /\ c \notin Assigned

(***************************************************************************)
(* C30: timecode division decode.  When bit 15 of the division is set, the *)
(* upper bytes 0xE8, 0xE7, 0xE3, 0xE2 (the format's -24, -25, -29, -30)    *)
(* give 24, 25, 29.97 and 30 frames per second, the lower byte is the      *)
(* ticks per frame, ticksPerSecond is their product, and a Set Tempo       *)
(* changes neither ticksPerSecond nor the timing mode.                     *)
(***************************************************************************)
\* frames per second, in hundredths, that the format gives the upper byte
\* of the division: the byte is a negative two's complement number
FormatFPS100(div) ==
    LET fps == 256 - (div \div 256)
    IN  IF fps = 29 THEN 2997 ELSE fps * 100

C30_TimecodeDecode ==
    [][(~TicksPerQtrNoteMode(division) /\ mainPc' # "setup") =>
          /\ ticksPerSecond' = ((division % 256) * FormatFPS100(division)) \div 100
          /\ mainPc # "setup" => ticksPerSecond' = ticksPerSecond
          /\ division' = division]_vars

\* playMusic has decoded the division 0xE864 (-24 frames per second, 100
\* ticks per frame): 152 frames per second, 15200 ticks per second
C30_FpsOfSevenBits ==
    /\ division = 232 * 256 + 100
    /\ mainPc = "seq"
    /\ FPS100(division) = 15200
    /\ ticksPerSecond = 15200


(***************************************************************************)
(* C31: after a worker dispatched an End of Track meta event (type 0x2F)   *)
(* it dispatches no further event of that track: no worker is at the       *)
(* switch of playTrack with an End of Track event among the events before  *)
(* its iterator.                                                           *)
(***************************************************************************)
\* an End of Track event of track t lies before the iterator
EndOfTrackPassed(t) ==
    \E k \in 1 .. (it[t] - 1) : k <= Len(Track(t)) /\ IsEndOfTrack(Track(t)[k])

C31_FinishedAfterEndOfTrack ==
    \A t \in Tracks : pc[t] = "disp" => ~EndOfTrackPassed(t)

\* track 0 is << End of Track, Set Tempo >>, no other track changes the
\* tempo, and the tempo of the event after End of Track is in force
C31_TempoSetAfterEndOfTrack ==
    /\ NumTracks = 2
    /\ Track(0) = << EndOfTrack(0), SetTempo(0, 300000) >>
    /\ \A k \in 1 .. Len(Track(1)) : ~IsSetTempo(Track(1)[k])
    /\ it[0] = 3
    /\ usecPerQtrNote = 300000


(***************************************************************************)
(* C32: a voiced note-on (velocity above 1, valid program) for a note that *)
(* already has a play index h on its channel reuses h: the step of noteOn  *)
(* that finds the slot active ends the call, leaves the queue of free      *)
(* indices and every activeNotes slot as they were, starts no voice, and   *)
(* in the Stream changes only h's frequency (note, pitch bend) and         *)
(* amplitude (velocity, channel volume, channel expression).               *)
(***************************************************************************)
\* track t's noteOn finds the note of its voiced note-on active
RetriggerStep(t) ==
    /\ pc[t] = "onVelocity"
    /\ pc'[t] \notin {pc[t], "exited"}
    /\ Ev(t).byte2 > 1
    /\ ~invalidProg(prog[NoteChan(Ev(t))])
    /\ activeNotes[NoteSlot(Ev(t))] # NOT_ACTIVE

C32_RetriggerReusesHandle ==
    [][\A t \in Tracks :
         RetriggerStep(t) =>
             LET h == activeNotes[NoteSlot(Ev(t))]
                 chan == NoteChan(Ev(t))
             IN  /\ pc'[t] = "top"
                 /\ it'[t] = it[t] + 1
                 /\ availablePlayIndices' = availablePlayIndices
                 /\ activeNotes' = activeNotes
                 /\ stream'[h] = [decayFactor |-> stream[h].decayFactor,
                                  note |-> Ev(t).byte1,
                                  pitchBend |-> pitchBendFactor[chan],
                                  noteVel |-> Ev(t).byte2,
                                  channelVel |-> volume[chan],
                                  channelExpression |-> expression[chan]]
                 /\ \A g \in Handles \ {h} : stream'[g] = stream[g]]_vars

\* the second note-on of ControlTrack for note 69 of channel 1 was
\* dispatched: the voice has the new velocity, no index was taken
C32_SecondNoteOnDispatched ==
    /\ chunks = << ControlTrack >>
    /\ it[0] = 10
    /\ pc[0] = "top"
    /\ activeNotes[<< 1, 69 >>] # NOT_ACTIVE
    /\ stream[activeNotes[<< 1, 69 >>]].noteVel = 50
    /\ stream[activeNotes[<< 1, 69 >>]].decayFactor = "growth"
    /\ availablePlayIndices = << >>


(***************************************************************************)
(* C33: noteOff for (channel, note).  If the slot holds play index h, the  *)
(* Stream is told to stop h and the slot becomes NOT_ACTIVE, and only then *)
(* h is appended to the queue of free indices, once, the queue not holding *)
(* h before; if the slot is NOT_ACTIVE the call changes neither the queue  *)
(* nor a slot nor the Stream.  No other slot is written in either case.    *)
(***************************************************************************)
\* track t takes a step from pc value p
StepFrom(t, p) == pc[t] = p /\ pc'[t] \notin {p, "exited"}

\* the first statement of noteOff, called by playTrack or by noteOn
NoteOffEntered(t) ==
    \/ StepFrom(t, "disp") /\ IsNoteOff(Ev(t))
    \/ StepFrom(t, "offRead")

C33_NoteOffFrame ==
    [][\A t \in Tracks :
         /\ NoteOffEntered(t) =>
                /\ UNCHANGED poolVars
                /\ IF activeNotes[NoteSlot(Ev(t))] = NOT_ACTIVE
                   THEN pc'[t] = "top" /\ it'[t] = it[t] + 1
                   ELSE pc'[t] = "offClear" /\ idx'[t] = activeNotes[NoteSlot(Ev(t))]
         /\ StepFrom(t, "offClear") =>
                /\ stream' = [stream EXCEPT ![idx[t]].decayFactor = "shrink"]
                /\ activeNotes' = [activeNotes EXCEPT ![NoteSlot(Ev(t))] = NOT_ACTIVE]
                /\ availablePlayIndices' = availablePlayIndices
                /\ pc'[t] = "offPush"
         /\ StepFrom(t, "offPush") =>
                /\ stream[idx[t]].decayFactor = "shrink"
                /\ activeNotes[NoteSlot(Ev(t))] = NOT_ACTIVE
                /\ \A k \in 1 .. Len(availablePlayIndices) :
                       availablePlayIndices[k] # idx[t]
                /\ availablePlayIndices' = Append(availablePlayIndices, idx[t])
                /\ UNCHANGED << activeNotes, stream >>
                /\ pc'[t] = "top" /\ it'[t] = it[t] + 1]_vars

\* both note-offs of ControlTrack were dispatched: the one for the silent
\* note changed nothing, the one for note 69 of channel 1 freed its index;
\* the voice of channel 2 still sounds
C33_OneVoiceReleased ==
    /\ chunks = << ControlTrack >>
    /\ it[0] = 12
    /\ pc[0] = "top"
    /\ activeNotes[<< 1, 69 >>] = NOT_ACTIVE
    /\ activeNotes[<< 2, 60 >>] # NOT_ACTIVE
    /\ Len(availablePlayIndices) = 1
    /\ stream[availablePlayIndices[1]].decayFactor = "shrink"
    /\ stream[activeNotes[<< 2, 60 >>]].decayFactor = "growth"


(***************************************************************************)
(* C34: frame conditions of playTrack's switch.  A control change whose    *)
(* controller is neither 0x07 nor 0x0B, a system-exclusive event and a     *)
(* meta event other than 0x51 and 0x2F leave the channels' state, the      *)
(* tempo, the voice pool and the start barrier as they were.  Controller   *)
(* 0x07 writes only its channel's volume, controller 0x0B only its         *)
(* channel's expression, and in the Stream only that amplitude factor of   *)
(* the channel's active voices.                                            *)
(***************************************************************************)
NoEffectEvent(e) ==
    \/ IsControlChange(e) /\ e.byte1 \notin {7, 11}
    \/ e.type = "SysEx"
    \/ e.type = "Meta" /\ e.metaType \notin {81, 47}

\* play index h is held by a note of channel chan
VoiceOf(chan, h) == \E n \in ModelNotes : activeNotes[<< chan, n >>] = h

C34_DispatchFrame ==
    [][\A t \in Tracks :
         StepFrom(t, "disp") =>
             LET e == Ev(t)
                 chan == e.status - 175
             IN  /\ NoEffectEvent(e) =>
                        UNCHANGED << driveVars, tempoVars, poolVars, ready >>
                 /\ IsControlChange(e) /\ e.byte1 = 7 =>
                        /\ volume' = [volume EXCEPT ![chan] = e.byte2]
                        /\ UNCHANGED << prog, channelHasBeenUsed, chanToDrive, freeDrive,
                                        expression, pitchBendFactor, tempoVars, ready,
                                        availablePlayIndices, activeNotes >>
                        /\ \A h \in Handles :
                               stream'[h] = IF VoiceOf(chan, h)
                                            THEN [stream[h] EXCEPT !.channelVel = e.byte2]
                                            ELSE stream[h]
                 /\ IsControlChange(e) /\ e.byte1 = 11 =>
                        /\ expression' = [expression EXCEPT ![chan] = e.byte2]
                        /\ UNCHANGED << prog, channelHasBeenUsed, chanToDrive, freeDrive,
                                        volume, pitchBendFactor, tempoVars, ready,
                                        availablePlayIndices, activeNotes >>
                        /\ \A h \in Handles :
                               stream'[h] = IF VoiceOf(chan, h)
                                            THEN [stream[h] EXCEPT !.channelExpression = e.byte2]
                                            ELSE stream[h]]_vars

\* the controllers 0x07, 0x0B and 0x40 of ControlTrack were dispatched for
\* channel 1 while a voice of channel 1 and one of channel 2 sound
C34_VolumeAndExpressionSet ==
    /\ chunks = << ControlTrack >>
    /\ it[0] = 6
    /\ volume[1] = 80 /\ expression[1] = 90
    /\ volume[2] = DEFAULT_VOLUME /\ expression[2] = DEFAULT_EXPRESSION
    /\ activeNotes[<< 1, 69 >>] # NOT_ACTIVE /\ activeNotes[<< 2, 60 >>] # NOT_ACTIVE
    /\ stream[activeNotes[<< 1, 69 >>]].channelVel = 80
    /\ stream[activeNotes[<< 1, 69 >>]].channelExpression = 90
    /\ stream[activeNotes[<< 2, 60 >>]].channelVel = DEFAULT_VOLUME
    /\ stream[activeNotes[<< 2, 60 >>]].channelExpression = DEFAULT_EXPRESSION


(***************************************************************************)
(* C35: the note sent to a drive.  For every note number n in 0 .. 127,    *)
(* after noteOn's block for the drives the note of floppyFreq lies in      *)
(* MIN_FLOPPY_NOTE .. MAX_FLOPPY_NOTE (25 .. 57) and differs from          *)
(* n - NOTE_DOWN_SHIFT_SEMITONES by a multiple of 12 semitones.  (That the *)
(* loops end is shown by the evaluation of FloppyNote for every n.)        *)
(***************************************************************************)
C35_PitchClassKept ==
    \A t \in Tracks :
        pc[t] = "top" /\ it[t] = 2 =>
            LET n == Track(t)[1].byte1
            IN  /\ floppyNote >= MIN_FLOPPY_NOTE
                /\ floppyNote <= MAX_FLOPPY_NOTE
                /\ (floppyNote + 10 * NUM_SEMITONES_IN_OCTAVE
                      - (n - NOTE_DOWN_SHIFT_SEMITONES)) % NUM_SEMITONES_IN_OCTAVE = 0

\* note 0 (a C) was sent to the drive as note 52 (an E)
C35_LowestNoteAsE ==
    /\ Track(0)[1].byte1 = 0
    /\ pc[0] = "top"
    /\ floppyNote = 52


(***************************************************************************)
(* C36: a message whose status byte is in 0xF4 .. 0xFE takes no data byte. *)
(* A step of the parser that decodes, with every read inside the buffer, a *)
(* MIDI event whose first byte is such a status gives byte1 = 0 and        *)
(* byte2 = 0 and leaves the cursor right after the status byte, where the  *)
(* next delta-time begins.                                                 *)
(***************************************************************************)
C36_NoDataBytes ==
    [][ (/\ parsePc = "events"
         /\ Len(mtrkEvents') = Len(mtrkEvents) + 1
         /\ ~truncated'
         /\ mtrkEvents'[Len(mtrkEvents')].type = "MIDI"
         /\ RawAt(rawMIDI, readVariableLengthQuantity(rawMIDI, pos).pos) \in 244 .. 254)
        =>
        LET e == mtrkEvents'[Len(mtrkEvents')]
            q == readVariableLengthQuantity(rawMIDI, pos).pos
        IN  /\ e.status = RawAt(rawMIDI, q)
            /\ e.byte1 = 0
            /\ e.byte2 = 0
            /\ pos' = q + 1 ]_vars

\* the chunk is a timing clock and a note-on; after the timing clock was
\* decoded the cursor is past the delta-time of the note-on, on its status
\* byte
C36_DeltaTimeTakenAsData ==
    /\ parsePc = "events"
    /\ ~truncated
    /\ written.header = Header(1, << >>)
    /\ written.tracks = << [syms |-> << RealtimeSym, NoteOnSym >>, off |-> 0] >>
    /\ written.cut = 0
    /\ mtrkEvents = << MidiEvt(0, 248, 0, 0) >>
    /\ RawAt(rawMIDI, pos) = 144


(***************************************************************************)
(* C37: no use of the Stream after its teardown has begun.  Once           *)
(* cleanUpAudio has been entered, by a worker that saw isClosing or by     *)
(* playMusic at the end, no worker takes a step that calls a function of   *)
(* the Stream (stopAudio in noteOff, setFreqs, setVels and startAudio in   *)
(* noteOn).                                                                *)
(***************************************************************************)
\* a step of track t that calls a function of the Stream
SinkCall(t) ==
    \/ StepFrom(t, "offClear")
    \/ StepFrom(t, "onStart")
    \/ RetriggerStep(t)

C37_NoSinkUseAfterTeardown ==
    [][teardowns > 0 => \A t \in Tracks : ~SinkCall(t)]_vars

\* cleanUpAudio has stopped every play index, and a voice was started after
C37_StartedAfterTeardown ==
    /\ teardowns = 1
    /\ \E t \in Tracks : pc[t] = "exit"
    /\ \E h \in Handles : stream[h].decayFactor = "growth"


(***************************************************************************)
(* C38: a file whose format is not 1 is played track after track by the    *)
(* thread of playMusic.  While track i is being played every earlier track *)
(* has dispatched all its events and no later track has begun; the call    *)
(* for a track starts with elapsedMS = 0 at the track's first event and    *)
(* leaves the start instant and the tempo as the track before left them,   *)
(* and the start instant does not change while the tracks are played.      *)
(***************************************************************************)
\* playTrack(t) has been entered and has not returned
InPlayTrack(t) == pc[t] \notin {"idle", "done", "exited"}

OneTrackAtATime ==
    \A t \in Tracks :
        InPlayTrack(t) =>
            /\ mainPc = "inTrack" /\ mainI = t
            /\ \A u \in Tracks :
                /\ u < t => pc[u] = "done" /\ it[u] = Len(Track(u)) + 1
                /\ u > t => pc[u] = "idle" /\ it[u] = 1

C38_SequentialPlayback ==
    [][format # 1 =>
          /\ OneTrackAtATime
          /\ OneTrackAtATime'
          /\ mainPc = "seq" /\ mainPc' = "inTrack" =>
                 /\ pc'[mainI] = "top"
                 /\ it'[mainI] = 1
                 /\ elapsedMS'[mainI] = 0
                 /\ UNCHANGED << startTime, tempoVars >>
          /\ mainPc \in {"seq", "inTrack"} => startTime' = startTime]_vars

\* format 0, two tracks: the second track is at its first event, 480 ticks
\* after the start at the tempo the first track set (300 ms, not the 500 ms
\* of the default tempo), the first track has ended at 300 ms
C38_SecondTrackAtCarriedTempo ==
    /\ format = 0
    /\ chunks = TwoTracks
    /\ pc[0] = "done"
    /\ elapsedMS[0] = 300
    /\ pc[1] = "disp"
    /\ it[1] = 1
    /\ elapsedMS[1] = 300
    /\ ticksPerSecond = 1600
    /\ startTime = 0

=============================================================================
